---- MODULE Spec2Model ----
(***************************************************************************)
(* A model of the DMX codec of io_scene_valvesource/datamodel.py: the      *)
(* element graph (Element, DataModel), attribute assignment with its       *)
(* cross-DataModel import, the keyvalues2 and binary writers (echo) and    *)
(* readers (load).                                                         *)
(*                                                                         *)
(* Python objects are heap cells: an Element is an index into the sequence *)
(* elems, in allocation order.  Element.__eq__ compares ids and is false   *)
(* whenever its right operand has no attributes (an empty OrderedDict is   *)
(* falsy); list membership and list.index test identity first and then     *)
(* item == needle, as CPython 3.9 and later do.                            *)
(***************************************************************************)
EXTENDS Integers, Sequences, FiniteSets, TLC

\* ------------------------------------------------------------------ bounds
MaxElems == 3

\* ------------------------------------------------------------- sequences
Range(s) == {s[i] : i \in 1..Len(s)}

Last(s) == s[Len(s)]

Front(s) == SubSeq(s, 1, Len(s) - 1)

RECURSIVE Concat(_)
Concat(ss) == IF ss = <<>> THEN <<>> ELSE Head(ss) \o Concat(Tail(ss))

\* The position of the first entry of s satisfying Test, 0 when none does.
FirstIndex(s, Test(_)) ==
  IF \E i \in 1..Len(s) : Test(s[i])
  THEN CHOOSE i \in 1..Len(s) : Test(s[i]) /\ \A j \in 1..(i - 1) : ~Test(s[j])
  ELSE 0

\* Every ordering of a finite set, as sequences without repetition.
Orders(S) ==
  {s \in [1..Cardinality(S) -> S] : \A i, j \in 1..Cardinality(S) : s[i] = s[j] => i = j}

\* -------------------------------------------------------------- uuid.UUID
\* A UUID is its 16 bytes in network order (uuid.UUID.bytes).
MkId(n) == <<n, 0, 0, n + 16, 0, n + 32, 0, n + 48, 8, 9, 10, 11, 12, 13, 14, 15>>

NoId == <<>>

\* uuid.UUID(bytes_le=b): the first three fields are read byte-reversed.
FromBytesLe(b) ==
  <<b[4], b[3], b[2], b[1], b[6], b[5], b[8], b[7]>> \o SubSeq(b, 9, 16)

\* uuid.UUID.bytes, what DataModel._write puts on the stream for an id.
UuidBytes(id) == id

\* ------------------------------------------------------- attribute values
\* One shape for every value, so that any two values can be compared.
\*   "null" None, "int" int, "str" str, "elem" Element (e is the heap index),
\*   "earr" _ElementArray (a is the sequence of heap indices),
\*   "sarr" _StrArray (l is the sequence of strings), "list" a plain Python
\*   list, which is no datamodel attribute type.
Val(t, e, a, n, s, l) == [t |-> t, e |-> e, a |-> a, n |-> n, s |-> s, l |-> l]

VNull == Val("null", 0, <<>>, 0, "", <<>>)

VInt(n) == Val("int", 0, <<>>, n, "", <<>>)

VStr(s) == Val("str", 0, <<>>, 0, s, <<>>)

VElem(e) == Val("elem", e, <<>>, 0, "", <<>>)

VEArr(a) == Val("earr", 0, a, 0, "", <<>>)

VSArr(l) == Val("sarr", 0, <<>>, 0, "", l)

VList == Val("list", 0, <<>>, 0, "", <<>>)

\* _dmxtypes_all, restricted to the types the model carries (line 346 also
\* admits None).
DmxTypes == {"int", "str", "elem", "earr", "sarr"}

\* ------------------------------------------------------------ the heap
VARIABLES
  elems,       \* the Element objects, in allocation order
  dmElements,  \* DataModel.elements of each DataModel
  dmRoot,      \* DataModel.root of each DataModel (0: None)
  err          \* the exception the last call raised ("none": it returned)

DMs == {"A", "B"}

\* Element.__init__ (id already resolved to a UUID).
NewElement(dm, name, elemtype, id, ph) ==
  [id |-> id, name |-> name, type |-> elemtype, ph |-> ph,
   dms |-> {dm}, users |-> 0, attrs |-> <<>>]

\* A world is the graph state the operations below transform: the caller's
\* heap, or the private heap of one load call.
World(e, l, r) == [elems |-> e, list |-> l, root |-> r]

\* OrderedDict lookup: the position of key in the attributes, 0 when absent.
AttrIndex(attrs, key) == FirstIndex(attrs, LAMBDA kv : kv.k = key)

HasAttr(el, key) == AttrIndex(el.attrs, key) # 0

GetAttr(el, key) == el.attrs[AttrIndex(el.attrs, key)].v

\* OrderedDict.__setitem__: a present key keeps its position.
PutAttr(attrs, key, v) ==
  IF AttrIndex(attrs, key) = 0
  THEN Append(attrs, [k |-> key, v |-> v])
  ELSE [attrs EXCEPT ![AttrIndex(attrs, key)] = [k |-> key, v |-> v]]

\* The elements an attribute value holds, in order (lines 336-342).
ValTargets(v) ==
  IF v.t = "elem" THEN <<v.e>> ELSE IF v.t = "earr" THEN v.a ELSE <<>>

\* The elements all attributes of an element hold, in attribute order.
RECURSIVE AttrTargets(_)
AttrTargets(attrs) ==
  IF attrs = <<>> THEN <<>>
  ELSE ValTargets(Head(attrs).v) \o AttrTargets(Tail(attrs))

\* Element.__eq__(self, other): "other and self.id == other.id".
ElemEq(w, self, other) ==
  /\ w.elems[other].attrs # <<>>
  /\ w.elems[self].id = w.elems[other].id

\* "x in lst" / lst.index(x) succeeding, for a list of elements.
InList(w, lst, x) == \E i \in 1..Len(lst) : lst[i] = x \/ ElemEq(w, lst[i], x)

\* lst.index(x), 0 when it raises ValueError.
ListIndex(w, lst, x) == FirstIndex(lst, LAMBDA y : y = x \/ ElemEq(w, y, x))

\* ---------------------------------------------------- DataModel.add_element
\* An add_element that makes every element it adds the root.
AddElementRootLast(w, dm, name, elemtype, id, ph) ==
  World(Append(w.elems, NewElement(dm, name, elemtype, id, ph)),
        [w.list EXCEPT ![dm] = Append(@, Len(w.elems) + 1)],
        [w.root EXCEPT ![dm] = Len(w.elems) + 1])

\* The duplicate check of lines 545-548 raises ValueError inside a try whose
\* bare except swallows it, so it decides nothing: the element is appended
\* on every path.
AddElementIn(w, dm, name, elemtype, id, ph) ==
  LET e == Len(w.elems) + 1
      els == Append(w.elems, NewElement(dm, name, elemtype, id, ph))
      lst == Append(w.list[dm], e)
  IN World(els,
           [w.list EXCEPT ![dm] = lst],
           IF Len(lst) = 1 THEN [w.root EXCEPT ![dm] = e] ELSE w.root)

\* ---------------------------------------------------- Element.__setitem__
\* import_element(elem), lines 328-342.  st is [w, err]; order is the order in
\* which "for dm in self._datamodels" yields the owners of the assigned-to
\* element, rest what is left of it in the running loop.  An exception
\* (err) unwinds every enclosing loop and keeps what was already appended.
RECURSIVE ImportElement(_, _, _, _)
RECURSIVE ImportTargets(_, _, _)
IdCollides(w, dm, elem) ==
  \E i \in 1..Len(w.list[dm]) : w.elems[w.list[dm][i]].id = w.elems[elem].id

ImportElement(st, order, rest, elem) ==
  IF st.err \/ rest = <<>> THEN st
  ELSE LET dm == Head(rest) IN
    IF dm \in st.w.elems[elem].dms
    THEN ImportElement(st, order, Tail(rest), elem)
    ELSE IF IdCollides(st.w, dm, elem)
    THEN [st EXCEPT !.err = TRUE]
    ELSE LET w1 == World([st.w.elems EXCEPT ![elem].dms = @ \cup {dm}],
                         [st.w.list EXCEPT ![dm] = Append(@, elem)],
                         st.w.root)
             st1 == ImportTargets([st EXCEPT !.w = w1], order,
                                  AttrTargets(st.w.elems[elem].attrs))
         IN ImportElement(st1, order, Tail(rest), elem)

ImportTargets(st, order, targets) ==
  IF st.err \/ targets = <<>> THEN st
  ELSE ImportTargets(ImportElement(st, order, order, Head(targets)), order,
                     Tail(targets))

\* An assignment that stores the item before it tests its type.
SetItemStoresFirst(w, self, key, item, order) ==
  [w |-> World([w.elems EXCEPT ![self].attrs = PutAttr(@, key, item)], w.list, w.root),
   err |-> IF item.t \in DmxTypes \cup {"null"} THEN "none" ELSE "ValueError"]

\* Element.__setitem__(self, key, item), lines 325-358, with the key already
\* known to be a str.  The result is [w, err]: the world after the call and
\* the exception it raised.
SetItemIn(w, self, key, item, order) ==
  IF item.t \in DmxTypes \cup {"null"}
  THEN LET st == ImportTargets([w |-> w, err |-> FALSE], order, ValTargets(item))
       IN IF st.err
          THEN [w |-> st.w, err |-> "IDCollisionError"]
          ELSE [w |-> World([st.w.elems EXCEPT ![self].attrs = PutAttr(@, key, item)],
                            st.w.list, st.w.root),
                err |-> "none"]
  ELSE [w |-> w, err |-> "ValueError"]

\* ------------------------------------------------ echo: counting the users
\* Lines 665-682.  The counters of the elements of self.elements are reset;
\* _count_child_elems then walks from root, appends every element it enters
\* to out_elems and adds one to the target of every slot it passes.  st is
\* [w, out]; todo is what is left of the slots of the element being walked.
ResetUsers(w, dm) ==
  World([e \in 1..Len(w.elems) |->
           IF e \in Range(w.list[dm]) THEN [w.elems[e] EXCEPT !.users = 0]
           ELSE w.elems[e]],
        w.list, w.root)

RECURSIVE CountChildElems(_, _)
RECURSIVE CountSlots(_, _)
CountChildElems(st, elem) ==
  CountSlots([st EXCEPT !.out = Append(@, elem)], AttrTargets(st.w.elems[elem].attrs))

CountSlots(st, todo) ==
  IF todo = <<>> THEN st
  ELSE LET t == Head(todo)
           st1 == IF InList(st.w, st.out, t) THEN st ELSE CountChildElems(st, t)
           w2 == World([st1.w.elems EXCEPT ![t].users = @ + 1], st1.w.list, st1.w.root)
       IN CountSlots([st1 EXCEPT !.w = w2], Tail(todo))

\* The whole counting pass of one echo call on dm: [w, out] with out_elems.
CountUsers(w, dm) ==
  CountChildElems([w |-> ResetUsers(w, dm), out |-> <<>>], w.root[dm])

\* ------------------------------------------------------ keyvalues2 writer
\* A quoted token of a keyvalues2 line: a string, the text of a UUID or the
\* decimal text of an int.  The text of a UUID has a spelling s: "" is the
\* one str(uuid) writes (lower case, hyphenated), "upper" the same digits in
\* upper case; uuid.UUID(hex = text) reads both as the UUID u.
Tok(k, s, u, n) == [k |-> k, s |-> s, u |-> u, n |-> n]

TStr(s) == Tok("s", s, NoId, 0)

TId(u) == Tok("u", "", u, 0)

TInt(n) == Tok("n", "", NoId, n)

\* The writer is a sequence of steps on the module-level _kv2_indent:
\*   "emit"    append a line, indented by the current _kv2_indent
\*   "top"     append a line that is written without reading _kv2_indent
\*   "reserve" append the line of an element-array attribute, whose
\*             indentation is read only after the array text is complete
\*             (the argument _get_kv2_repr(attr) of _make_attr_str is
\*             evaluated first, lines 405-409)
\*   "fill"    read _kv2_indent for the innermost reserved line
\*   "inc", "dec"  _kv2_indent += 1, _kv2_indent -= 1
\*   "raise"   RecursionError: get_kv2 re-entered an element it is already
\*             writing, which never ends
\* A line is [ind, toks, sym]: its depth, its quoted tokens and its
\* unquoted bracket.  The ", " between array items is not kept: the reader
\* strips it (line 777) and takes quoted tokens only (line 753).
Step(op, toks, sym) == [op |-> op, toks |-> toks, sym |-> sym]

Emit(toks, sym) == Step("emit", toks, sym)

Raises(ops) == ops # <<>> /\ ops[Len(ops)].op = "raise"

\* Sequential composition: nothing runs after an exception.
Then(a, b) == IF Raises(a) THEN a ELSE a \o b

Then3(a, b, c) ==
  CASE Raises(a) -> a
    [] Raises(b) -> a \o b
    [] OTHER -> a \o b \o c

\* _get_kv2_repr / type_str of a non-element attribute, lines 397-409, as
\* the steps writing its line.
Kv2PlainAttr(k, v) ==
  IF v.t = "int" THEN <<Emit(<<TStr(k), TStr("int"), TInt(v.n)>>, "")>>
  ELSE IF v.t = "str" THEN <<Emit(<<TStr(k), TStr("string"), TStr(v.s)>>, "")>>
  ELSE <<Emit(<<TStr(k), TStr("string_array")>> \o [i \in 1..Len(v.l) |-> TStr(v.l[i])], "[ ]")>>

\* Element.get_kv2 without its leading type token (which lands on the
\* caller's line); stack holds the elements whose get_kv2 is running.
RECURSIVE Kv2Body(_, _, _)
RECURSIVE Kv2Attrs(_, _, _)
RECURSIVE Kv2Items(_, _, _)
RECURSIVE Kv2Attr(_, _, _, _)
\* "attr._users < 2 and deep" (line 391; deep is never passed as False) and
\* "item._users == 1" (line 134).
Kv2InlineScalar(users) == users < 2

\* A test that inlines an array entry whatever its number of users.
Kv2InlineItemAlways(users) == users >= 1

Kv2InlineItem(users) == users = 1

Kv2Body(w, e, stack) ==
  IF e \in stack THEN <<Step("raise", <<>>, "")>>
  ELSE Then3(<<Emit(<<>>, "{"), Step("inc", <<>>, ""),
               Emit(<<TStr("id"), TStr("elementid"), TId(w.elems[e].id)>>, ""),
               Emit(<<TStr("name"), TStr("string"), TStr(w.elems[e].name)>>, "")>>,
             Kv2Attrs(w, w.elems[e].attrs, stack \cup {e}),
             <<Step("dec", <<>>, ""), Emit(<<>>, "}")>>)

\* One pass of the loop over the attributes, lines 383-409.
Kv2Attr(w, k, v, stack) ==
  CASE v.t = "null" -> <<Emit(<<TStr(k), TStr("element"), TStr("")>>, "")>>
    [] v.t = "elem" /\ Kv2InlineScalar(w.elems[v.e].users) ->
         Then(<<Emit(<<TStr(k), TStr(w.elems[v.e].type)>>, "")>>, Kv2Body(w, v.e, stack))
    [] v.t = "elem" /\ ~Kv2InlineScalar(w.elems[v.e].users) ->
         <<Emit(<<TStr(k), TStr("element"), TId(w.elems[v.e].id)>>, "")>>
    [] v.t = "earr" /\ v.a = <<>> -> <<Emit(<<TStr(k), TStr("element_array")>>, "[ ]")>>
    [] v.t = "earr" /\ v.a # <<>> ->
         Then3(<<Step("reserve", <<TStr(k), TStr("element_array")>>, ""),
                 Emit(<<>>, "["), Step("inc", <<>>, "")>>,
               Kv2Items(w, v.a, stack),
               <<Step("dec", <<>>, ""), Emit(<<>>, "]"), Step("fill", <<>>, "")>>)
    [] OTHER -> Kv2PlainAttr(k, v)

Kv2Attrs(w, attrs, stack) ==
  IF attrs = <<>> THEN <<>>
  ELSE Then(Kv2Attr(w, attrs[1].k, attrs[1].v, stack), Kv2Attrs(w, Tail(attrs), stack))

\* _Array.to_kv2 for an element array, the loop of lines 130-137.
Kv2Items(w, items, stack) ==
  CASE items = <<>> -> <<>>
    [] items # <<>> /\ Kv2InlineItem(w.elems[items[1]].users) ->
         Then3(<<Emit(<<TStr(w.elems[items[1]].type)>>, "")>>,
               Kv2Body(w, items[1], stack),
               Kv2Items(w, Tail(items), stack))
    [] OTHER ->
         Then(<<Emit(<<TStr("element"), TId(w.elems[items[1]].id)>>, "")>>,
              Kv2Items(w, Tail(items), stack))

\* element.get_kv2() + "\n\n" written by echo at top level (lines 690, 693).
Kv2Top(w, e) ==
  Then3(<<Step("top", <<TStr(w.elems[e].type)>>, "")>>,
        Kv2Body(w, e, {}),
        <<Step("top", <<>>, "")>>)

\* A loop over out_elems from its last element to its first.
RECURSIVE Kv2FlatNewestFirst(_, _)
Kv2FlatNewestFirst(w, out) ==
  CASE out = <<>> -> <<>>
    [] out # <<>> /\ w.elems[Last(out)].users > 1 ->
         Then(Kv2Top(w, Last(out)), Kv2FlatNewestFirst(w, Front(out)))
    [] OTHER -> Kv2FlatNewestFirst(w, Front(out))

\* Lines 690-693: the root, then every element of out_elems with more than
\* one user.
RECURSIVE Kv2Flat(_, _)
Kv2Flat(w, out) ==
  CASE out = <<>> -> <<>>
    [] out # <<>> /\ w.elems[out[1]].users > 1 ->
         Then(Kv2Top(w, out[1]), Kv2Flat(w, Tail(out)))
    [] OTHER -> Kv2Flat(w, Tail(out))

Kv2Steps(w, dm, out) == Then(Kv2Top(w, w.root[dm]), Kv2Flat(w, out))

\* One step of the writer: run is [lines, indent, open, err], open the
\* stack of reserved lines not yet filled.
Line(ind, toks, sym) == [ind |-> ind, toks |-> toks, sym |-> sym]

\* _get_kv2_indent, lines 50-51: the number of tabs in '\t' * _kv2_indent.
Tabs(indent) == IF indent < 0 THEN 0 ELSE indent

RunStep(run, st) ==
  IF st.op = "emit"
  THEN [run EXCEPT !.lines = Append(@, Line(Tabs(run.indent), st.toks, st.sym))]
  ELSE IF st.op = "top"
  THEN [run EXCEPT !.lines = Append(@, Line(0, st.toks, st.sym))]
  ELSE IF st.op = "reserve"
  THEN [run EXCEPT !.lines = Append(@, Line(0, st.toks, st.sym)),
                   !.open = Append(@, Len(run.lines) + 1)]
  ELSE IF st.op = "fill"
  THEN [run EXCEPT !.lines[Last(run.open)].ind = Tabs(run.indent),
                   !.open = Front(@)]
  ELSE IF st.op = "inc" THEN [run EXCEPT !.indent = @ + 1]
  ELSE IF st.op = "dec" THEN [run EXCEPT !.indent = @ - 1]
  ELSE [run EXCEPT !.err = TRUE]

\* The steps in order, the first half and then the second; nothing runs
\* after an exception.
RECURSIVE RunSteps(_, _)
RunSteps(run, steps) ==
  CASE run.err \/ steps = <<>> -> run
    [] ~run.err /\ Len(steps) = 1 -> RunStep(run, steps[1])
    [] OTHER -> RunSteps(RunSteps(run, SubSeq(steps, 1, Len(steps) \div 2)),
                         SubSeq(steps, Len(steps) \div 2 + 1, Len(steps)))

NewRun(indent) == [lines |-> <<>>, indent |-> indent, open |-> <<>>, err |-> FALSE]

\* ------------------------------------------------------------ streams
\* The header line, lines 26-30 and 651-658.
Header(kind, enc, ver, fmt, fmtver) ==
  [kind |-> kind, enc |-> enc, ver |-> ver, fmt |-> fmt, fmtver |-> fmtver]

NoHeader == Header("none", "", 0, "", 0)

\* header_proto2 for binary_proto, header_format for the others.
MakeHeader(enc, ver, fmt, fmtver) ==
  IF enc = "binary_proto" THEN Header("proto2", "", ver, "", 0)
  ELSE Header("dmx", enc, ver, fmt, fmtver)

\* What io.StringIO / io.BytesIO holds: the header and then the lines of a
\* text stream or the fields of a binary one.
Stream(kind, hdr, body) == [kind |-> kind, hdr |-> hdr, body |-> body]

NoStream == Stream("none", NoHeader, <<>>)

\* A check that also lets version 2 of keyvalues2 through.
SupportedAlsoKv2v2(enc, ver) ==
  \/ enc = "binary" /\ ver \in {1, 2, 3, 4, 5}
  \/ enc = "keyvalues2" /\ ver \in {1, 2}
  \/ enc = "binary_proto" /\ ver \in {2}

\* list_support / check_support, lines 36-44.
Supported(enc, ver) ==
  \/ enc = "binary" /\ ver \in {1, 2, 3, 4, 5}
  \/ enc = "keyvalues2" /\ ver \in {1}
  \/ enc = "binary_proto" /\ ver \in {2}

\* ----------------------------------------------------------- binary writer
\* A field of a binary stream: w is its width kind ("int" 4 bytes, "short"
\* 2 bytes, "byte" 1 byte, "str" NUL-terminated text, "uuid" 16 raw bytes).
Field(w, n, s, u) == [w |-> w, n |-> n, s |-> s, u |-> u]

FInt(n) == Field("int", n, "", NoId)

FShort(n) == Field("short", n, "", NoId)

FByte(n) == Field("byte", n, "", NoId)

FStr(s) == Field("str", 0, s, NoId)

FUuid(u) == Field("uuid", 0, "", u)

\* _StringDictionary: dummy, and the widths chosen in __init__ (lines
\* 469-481) as "short" or "int"; strings is the list itself.
Dict(dummy, isz, lsz, strings) ==
  [dummy |-> dummy, isz |-> isz, lsz |-> lsz, strings |-> strings]

DictFor(enc, ver, strings) ==
  IF enc = "binary_proto" \/ ver = 1 THEN Dict(TRUE, "int", "int", <<>>)
  ELSE IF ver = 4 THEN Dict(FALSE, "short", "int", strings)
  ELSE IF ver \in {2, 3} THEN Dict(FALSE, "short", "short", strings)
  ELSE Dict(FALSE, "int", "int", strings)

\* DataModel._string_dict: the attribute does not exist before the first
\* echo or load ("unset"), and is None after a call that completed.
SdUnset == [state |-> "unset", d |-> Dict(TRUE, "int", "int", <<>>)]

SdNone == [state |-> "none", d |-> Dict(TRUE, "int", "int", <<>>)]

SdSet(d) == [state |-> "set", d |-> d]

\* process_element, lines 489-504: st is [checked, strings].
RECURSIVE DictElement(_, _, _)
RECURSIVE DictAttrs(_, _, _)
DictElement(w, st, elem) ==
  DictAttrs(w, [checked |-> Append(st.checked, elem),
                strings |-> st.strings \cup {w.elems[elem].name, w.elems[elem].type}],
            w.elems[elem].attrs)

RECURSIVE DictVisit(_, _, _)
DictVisit(w, st, targets) ==
  IF targets = <<>> THEN st
  ELSE DictVisit(w, IF InList(w, st.checked, Head(targets)) THEN st
                    ELSE DictElement(w, st, Head(targets)),
                 Tail(targets))

DictAttrs(w, st, attrs) ==
  IF attrs = <<>> THEN st
  ELSE LET kv == Head(attrs)
           st1 == [st EXCEPT !.strings = @ \cup {kv.k}]
           st2 == IF kv.v.t = "str" THEN [st1 EXCEPT !.strings = @ \cup {kv.v.s}]
                  ELSE DictVisit(w, st1, ValTargets(kv.v))
       IN DictAttrs(w, st2, Tail(attrs))

\* The set of strings the dictionary of an echo of dm holds.
DictStrings(w, dm) ==
  DictElement(w, [checked |-> <<>>, strings |-> {}], w.root[dm]).strings

\* write_dictionary, lines 520-524.
WriteDictionary(d) ==
  IF d.dummy THEN <<>>
  ELSE <<IF d.lsz = "short" THEN FShort(Len(d.strings)) ELSE FInt(Len(d.strings))>>
       \o [i \in 1..Len(d.strings) |-> FStr(d.strings[i])]

\* A write is [fields, err]; the err of a failed write names the exception.
Wrote(fields) == [fields |-> fields, err |-> "none"]

WriteFails(e) == [fields |-> <<>>, err |-> e]

\* wr is [sd, ver, chain]: self._string_dict, self.encoding_ver and
\* self.elem_chain as the call finds them.
\* write_string, lines 513-518, reached through _write for a str without
\* suppress_dict (lines 584-588).
WriteString(wr, string) ==
  IF wr.sd.state # "set" THEN WriteFails("AttributeError")
  ELSE IF wr.sd.d.dummy THEN Wrote(<<FStr(string)>>)
  ELSE IF string \notin Range(wr.sd.d.strings) THEN WriteFails("AssertionError")
  ELSE LET i == FirstIndex(wr.sd.d.strings, LAMBDA x : x = string) - 1
       IN Wrote(<<IF wr.sd.d.isz = "short" THEN FShort(i) ELSE FInt(i)>>)

\* _write for a str, lines 584-588.
WriteStr(wr, string, suppress) ==
  IF suppress THEN Wrote(<<FStr(string)>>) ELSE WriteString(wr, string)

\* Two writes in sequence: the second does not run when the first raised.
Both(a, b) ==
  IF a.err # "none" THEN a
  ELSE [fields |-> a.fields \o b.fields, err |-> b.err]

\* The text str(uuid) of an id, written as a string.
IdText(u) == Field("str", 0, "", u)

\* _write for an Element, lines 575-583.  The id of a placeholder goes
\* through _write(str(value.id)), that is through the dictionary.
WriteElemRef(w, wr, e) ==
  IF w.elems[e].ph
  THEN IF wr.ver < 5 THEN Wrote(<<FInt(-1)>>)
       ELSE Both(Wrote(<<FInt(-2)>>),
                 IF wr.sd.state # "set" THEN WriteFails("AttributeError")
                 ELSE IF wr.sd.d.dummy THEN Wrote(<<IdText(w.elems[e].id)>>)
                 ELSE WriteFails("AssertionError"))
  ELSE IF ListIndex(w, wr.chain, e) = 0 THEN WriteFails("ValueError")
  ELSE Wrote(<<FInt(ListIndex(w, wr.chain, e) - 1)>>)

RECURSIVE WriteElemRefs(_, _, _)
WriteElemRefs(w, wr, items) ==
  IF items = <<>> THEN Wrote(<<>>)
  ELSE Both(WriteElemRef(w, wr, Head(items)), WriteElemRefs(w, wr, Tail(items)))

\* attr_list_v1.index / attr_list_v2.index, lines 422-429 and 451-463 (None
\* counts as Element).
TypeId(t) ==
  IF t \in {"null", "elem"} THEN 1
  ELSE IF t = "int" THEN 2
  ELSE IF t = "str" THEN 5
  ELSE IF t = "earr" THEN 15
  ELSE 19

TypeOfId(n) ==
  IF n = 1 THEN "elem"
  ELSE IF n = 2 THEN "int"
  ELSE IF n = 5 THEN "str"
  ELSE IF n = 15 THEN "earr"
  ELSE IF n = 19 THEN "sarr"
  ELSE "other"

\* _write for an attribute value, lines 633-636 and 564-605.
WriteValue(w, wr, v) ==
  IF v.t = "null" THEN Wrote(<<FInt(-1)>>)
  ELSE IF v.t = "elem" THEN WriteElemRef(w, wr, v.e)
  ELSE IF v.t = "int" THEN Wrote(<<FInt(v.n)>>)
  ELSE IF v.t = "str" THEN WriteStr(wr, v.s, wr.ver < 4)
  ELSE IF v.t = "earr" THEN Both(Wrote(<<FInt(Len(v.a))>>), WriteElemRefs(w, wr, v.a))
  ELSE Wrote(<<FInt(Len(v.l))>> \o [i \in 1..Len(v.l) |-> FStr(v.l[i])])

\* _write_element_index, lines 607-623: st is [chain, fields, err].
RECURSIVE WriteElementIndex(_, _, _)
RECURSIVE WriteIndexTargets(_, _, _)
WriteElementIndex(w, st, elem) ==
  IF st.err # "none" \/ w.elems[elem].ph THEN st
  ELSE LET wr == [sd |-> st.sd, ver |-> st.ver, chain |-> st.chain]
           hd == Both(WriteString(wr, w.elems[elem].type),
                 Both(WriteStr(wr, w.elems[elem].name, st.ver < 4),
                      Wrote(<<FUuid(UuidBytes(w.elems[elem].id))>>)))
       IN IF hd.err # "none" THEN [st EXCEPT !.err = hd.err]
          ELSE WriteIndexTargets(w, [st EXCEPT !.fields = @ \o hd.fields,
                                               !.chain = Append(@, elem)],
                                 AttrTargets(w.elems[elem].attrs))

WriteIndexTargets(w, st, targets) ==
  IF st.err # "none" \/ targets = <<>> THEN st
  ELSE WriteIndexTargets(w, IF InList(w, st.chain, Head(targets)) THEN st
                            ELSE WriteElementIndex(w, st, Head(targets)),
                         Tail(targets))

\* _write_element_props, lines 625-636.
RECURSIVE WriteAttrs(_, _, _)
WriteAttrs(w, wr, attrs) ==
  IF attrs = <<>> THEN Wrote(<<>>)
  ELSE Both(WriteString(wr, Head(attrs).k),
       Both(Wrote(<<FByte(TypeId(Head(attrs).v.t))>>),
       Both(WriteValue(w, wr, Head(attrs).v),
            WriteAttrs(w, wr, Tail(attrs)))))

RECURSIVE WriteElementProps(_, _, _)
WriteElementProps(w, wr, todo) ==
  IF todo = <<>> THEN Wrote(<<>>)
  ELSE IF w.elems[Head(todo)].ph THEN WriteElementProps(w, wr, Tail(todo))
  ELSE Both(Wrote(<<FInt(Len(w.elems[Head(todo)].attrs))>>),
       Both(WriteAttrs(w, wr, w.elems[Head(todo)].attrs),
            WriteElementProps(w, wr, Tail(todo))))

\* Lines 684-688: the element count, the index pass and the attribute pass.
\* The result is [fields, chain, err].
WriteBinary(w, dm, sd, ver, out) ==
  LET ix == WriteElementIndex(w, [sd |-> sd, ver |-> ver, chain |-> <<>>,
                                  fields |-> <<FInt(Len(out))>>, err |-> "none"],
                              w.root[dm])
      pr == WriteElementProps(w, [sd |-> sd, ver |-> ver, chain |-> ix.chain], ix.chain)
  IN IF ix.err # "none" THEN [fields |-> ix.fields, chain |-> ix.chain, err |-> ix.err]
     ELSE [fields |-> ix.fields \o pr.fields, chain |-> ix.chain, err |-> pr.err]

\* --------------------------------------------------------- load: set-up
\* The private heap of one load call: a single DataModel, called "L".
LoadDM == "L"

NewLoadWorld == World(<<>>, [dm \in {LoadDM} |-> <<>>], [dm \in {LoadDM} |-> 0])

\* elem[key] = item on the loaded graph (Element.__setitem__ again; every
\* element of a load belongs to its one DataModel).
LoadSet(w, self, key, item) == SetItemIn(w, self, key, item, <<LoadDM>>).w

\* ------------------------------------------------------ keyvalues2 reader
\* The parse state P is [pos, w, chain, users, err, ret, path, max]: the
\* position of the line iterator in_file, the graph, element_chain, the
\* AttributeReference records of element_users in the order they were made,
\* the exception raised, the value the last read_element / read_value
\* returned, what is left of the list element_path, and max_elem_path.
IsBlank(line) == line.toks = <<>> /\ line.sym = ""

\* read_value, lines 759-773, for the types the model carries.
Kv2ReadValue(P, name, type_str, tok, index) ==
  IF type_str = "element"
  THEN IF tok.k = "s" /\ tok.s = "" THEN [P EXCEPT !.ret = VNull]
       ELSE IF P.chain = <<>> THEN [P EXCEPT !.err = "IndexError"]
       ELSE LET w1 == AddElementIn(P.w, LoadDM, "Missing element", "DmElement", tok.u, TRUE)
            IN [P EXCEPT !.w = w1,
                         !.users = Append(@, [text |-> tok, owner |-> Last(P.chain),
                                              name |-> name, index |-> index]),
                         !.ret = VElem(Len(w1.elems))]
  ELSE IF type_str = "string" THEN [P EXCEPT !.ret = VStr(tok.s)]
  ELSE IF type_str = "int" THEN [P EXCEPT !.ret = VInt(tok.n)]
  ELSE [P EXCEPT !.ret = VNull]

\* element_chain[-1][key] = P.ret.  An element array that holds None (what
\* read_element returned for an element it skipped) fails in
\* import_element, which reads elem._datamodels (line 330).
Kv2Store(P, key) ==
  IF P.err # "none" THEN P
  ELSE IF P.chain = <<>> THEN [P EXCEPT !.err = "IndexError"]
  ELSE IF P.ret.t = "earr" /\ 0 \in Range(P.ret.a) THEN [P EXCEPT !.err = "AttributeError"]
  ELSE [P EXCEPT !.w = LoadSet(P.w, Last(P.chain), key, P.ret)]

\* str.lower(), on the names the runs use.
Lower(s) ==
  CASE s = "A" -> "a"
    [] s = "B" -> "b"
    [] OTHER -> s

\* The loop that skips an element, lines 796-801: it ends at the first line
\* with a closing brace that no opening brace read by the loop matches, or
\* at the end of the stream, and read_element returns None.
RECURSIVE Kv2Skip(_, _, _)
Kv2Skip(lines, P, child_level) ==
  IF P.pos > Len(lines) THEN [P EXCEPT !.ret = VNull]
  ELSE LET line == lines[P.pos]
           P1 == [P EXCEPT !.pos = @ + 1]
       IN IF line.sym = "{" THEN Kv2Skip(lines, P1, child_level + 1)
          ELSE IF line.sym = "}"
          THEN IF child_level = 0 THEN [P1 EXCEPT !.ret = VNull]
               ELSE Kv2Skip(lines, P1, child_level - 1)
          ELSE Kv2Skip(lines, P1, child_level)

RECURSIVE Kv2ReadElement(_, _, _, _, _, _)
RECURSIVE Kv2ReadArray(_, _, _, _)
\* read_element(elem_type), lines 755-860; id, name and new_elem are its
\* locals (NoId and "" are what "if id and name" takes for unset).
Kv2ReadElement(lines, P, elem_type, id, name, new_elem) ==
  IF P.err # "none" THEN P
  ELSE IF P.pos > Len(lines) THEN [P EXCEPT !.err = "IOError"]
  ELSE
    LET line == lines[P.pos]
        P0 == [P EXCEPT !.pos = @ + 1]
        toks == line.toks
    IN
    IF line.sym = "}"
    THEN IF P.chain = <<>> THEN [P0 EXCEPT !.err = "IndexError"]
         ELSE [P0 EXCEPT !.ret = VElem(Last(P.chain)), !.chain = Front(P.chain)]
    ELSE IF toks = <<>> THEN Kv2ReadElement(lines, P0, elem_type, id, name, new_elem)
    ELSE
      LET id1 == IF toks[1].s = "id" /\ Len(toks) >= 3 THEN toks[3].u ELSE id
          name1 == IF toks[1].s = "name" /\ Len(toks) >= 3 THEN toks[3].s ELSE name
          \* "don't read elements outside the element path", lines 788-803
          tested == P.max # 0 /\ name1 # "" /\ Len(P.w.list[LoadDM]) > 0
          skip == /\ tested
                  /\ IF P.path # <<>> THEN Lower(name1) # Lower(Head(P.path))
                     ELSE Len(P.chain) < P.max
          P1 == IF tested /\ P.path # <<>> THEN [P0 EXCEPT !.path = Tail(@)] ELSE P0
      IN
      IF toks[1].s \in {"id", "name"} /\ Len(toks) < 3 THEN [P0 EXCEPT !.err = "IndexError"]
      ELSE IF skip THEN Kv2Skip(lines, P0, 0)
      ELSE IF id1 # NoId /\ name1 # ""
      THEN LET w1 == AddElementIn(P1.w, LoadDM, name1, elem_type, id1, FALSE)
           IN Kv2ReadElement(lines, [P1 EXCEPT !.w = w1, !.chain = Append(@, Len(w1.elems))],
                             elem_type, NoId, "", Len(w1.elems))
      ELSE IF new_elem = 0 \/ Len(toks) < 2
      THEN Kv2ReadElement(lines, P1, elem_type, id1, name1, new_elem)
      ELSE IF toks[2].s = "element_array"
      THEN LET P2 == IF line.sym = "[ ]" THEN [P1 EXCEPT !.ret = VEArr(<<>>)]
                     ELSE Kv2ReadArray(lines, P1, toks[1].s, <<>>)
           IN Kv2ReadElement(lines, Kv2Store(P2, toks[1].s), elem_type, id1, name1, new_elem)
      ELSE IF toks[2].s = "string_array"
      THEN Kv2ReadElement(lines,
             Kv2Store([P1 EXCEPT !.ret = VSArr([i \in 1..(Len(toks) - 2) |-> toks[i + 2].s])],
                      toks[1].s),
             elem_type, id1, name1, new_elem)
      ELSE IF Len(toks) = 2
      THEN Kv2ReadElement(lines,
             Kv2Store(Kv2ReadElement(lines, P1, toks[2].s, NoId, "", 0), toks[1].s),
             elem_type, id1, name1, new_elem)
      ELSE IF Len(toks) = 3
      THEN Kv2ReadElement(lines,
             Kv2Store(Kv2ReadValue(P1, toks[1].s, toks[2].s, toks[3], -1), toks[1].s),
             elem_type, id1, name1, new_elem)
      ELSE Kv2ReadElement(lines, P1, elem_type, id1, name1, new_elem)

\* The loop over the lines of a multi-line element array, lines 821-829;
\* it leaves the array in P.ret.  Running out of lines ends the loop.
Kv2ReadArray(lines, P, arr_name, arr) ==
  IF P.err # "none" THEN P
  ELSE IF P.pos > Len(lines) THEN [P EXCEPT !.ret = VEArr(arr)]
  ELSE
    LET line == lines[P.pos]
        P1 == [P EXCEPT !.pos = @ + 1]
    IN
    IF line.sym \in {"[", "[ ]"} THEN Kv2ReadArray(lines, P1, arr_name, arr)
    ELSE IF line.sym = "]" THEN [P1 EXCEPT !.ret = VEArr(arr)]
    ELSE IF Len(line.toks) = 1
    THEN LET P2 == Kv2ReadElement(lines, P1, line.toks[1].s, NoId, "", 0)
         IN Kv2ReadArray(lines, P2, arr_name, Append(arr, P2.ret.e))
    ELSE IF Len(line.toks) = 2
    THEN LET P2 == Kv2ReadValue(P1, arr_name, "element", line.toks[2], Len(arr))
         IN Kv2ReadArray(lines, P2, arr_name, Append(arr, P2.ret.e))
    ELSE Kv2ReadArray(lines, P1, arr_name, arr)

\* The top-level loop, lines 865-872.
RECURSIVE Kv2ReadTop(_, _)
Kv2ReadTop(lines, P) ==
  IF P.err # "none" \/ P.pos > Len(lines) THEN P
  ELSE LET line == lines[P.pos]
           P1 == [P EXCEPT !.pos = @ + 1]
       IN IF P.chain = <<>> /\ Len(line.toks) = 1
          THEN Kv2ReadTop(lines, Kv2ReadElement(lines, P1, line.toks[1].s, NoId, "", 0))
          ELSE Kv2ReadTop(lines, P1)

\* One AttributeReference applied with element, lines 878-881.
Kv2Patch(w, u, element) ==
  IF u.index = -1 THEN LoadSet(w, u.owner, u.name, VElem(element))
  ELSE World([w.elems EXCEPT ![u.owner].attrs[AttrIndex(w.elems[u.owner].attrs, u.name)].v.a[u.index + 1]
                = element],
             w.list, w.root)

\* Whether the slot an AttributeReference names still exists.
Kv2PatchOk(w, u) ==
  /\ HasAttr(w.elems[u.owner], u.name)
  /\ u.index # -1 =>
       /\ GetAttr(w.elems[u.owner], u.name).t = "earr"
       /\ u.index + 1 <= Len(GetAttr(w.elems[u.owner], u.name).a)

RECURSIVE Kv2PatchUsers(_, _, _)
Kv2PatchUsers(st, users, element) ==
  IF st.err # "none" \/ users = <<>> THEN st
  ELSE LET u == Head(users) IN
    IF u.text # TId(st.w.elems[element].id) THEN Kv2PatchUsers(st, Tail(users), element)
    ELSE IF u.index # -1 /\ ~Kv2PatchOk(st.w, u) THEN [st EXCEPT !.err = "AttributeError"]
    ELSE Kv2PatchUsers([st EXCEPT !.w = Kv2Patch(st.w, u, element)], Tail(users), element)

\* The patch loop over dm.elements, lines 874-881.
RECURSIVE Kv2PatchAll(_, _, _)
Kv2PatchAll(st, users, i) ==
  IF st.err # "none" \/ i > Len(st.w.list[LoadDM]) THEN st
  ELSE LET element == st.w.list[LoadDM][i]
       IN Kv2PatchAll(IF st.w.elems[element].ph THEN st
                      ELSE Kv2PatchUsers(st, users, element),
                      users, i + 1)

\* The keyvalues2 branch of load, lines 745-881: [w, err].  element_path is
\* the list given to load (<<>> for None and for the empty list, which
\* line 743 treats alike).
LoadKv2(lines, element_path) ==
  LET P == Kv2ReadTop(lines, [pos |-> 1, w |-> NewLoadWorld, chain |-> <<>>,
                              users |-> <<>>, err |-> "none", ret |-> VNull,
                              path |-> element_path,
                              max |-> IF element_path # <<>> THEN Len(element_path) + 1
                                      ELSE 0])
  IN IF P.err # "none" THEN [w |-> P.w, err |-> P.err]
     ELSE Kv2PatchAll([w |-> P.w, err |-> "none"], P.users, 1)

\* ----------------------------------------------------------- binary reader
\* The read state R is [pos, w, sd, ver, err, f]: the position in the
\* fields, the graph, dm._string_dict, the encoding version, the exception
\* raised and the field the last read returned.  A read that does not meet a
\* field of the width it asks for is below the resolution of fields: it is
\* reported as the error "misframed".  At the end of the stream file.read
\* returns b'': unpack raises struct.error (lines 65-82), uuid.UUID raises
\* ValueError (line 895), and the loop of get_str (lines 84-89), which ends
\* at a NUL byte only, goes on for ever: the error "hang" stands for a call
\* that never returns.
AtEnd(width) ==
  CASE width = "str" -> "hang"
    [] width = "uuid" -> "ValueError"
    [] OTHER -> "struct.error"

Take(fields, R, width) ==
  IF R.err # "none" THEN R
  ELSE IF R.pos > Len(fields) THEN [R EXCEPT !.err = AtEnd(width)]
  ELSE IF fields[R.pos].w = width
  THEN [R EXCEPT !.pos = @ + 1, !.f = fields[R.pos]]
  ELSE [R EXCEPT !.err = "misframed"]

\* read_string, lines 507-511: the string is left in R.f.s.
ReadString(fields, R) ==
  IF R.sd.dummy THEN Take(fields, R, "str")
  ELSE LET R1 == Take(fields, R, R.sd.isz)
       IN IF R1.err # "none" THEN R1
          ELSE IF R1.f.n + 1 \in 1..Len(R.sd.strings)
          THEN [R1 EXCEPT !.f = FStr(R.sd.strings[R1.f.n + 1])]
          ELSE [R1 EXCEPT !.err = "IndexError"]

\* The strings of the dictionary, lines 483-486.
RECURSIVE ReadDictStrings(_, _, _)
ReadDictStrings(fields, R, n) ==
  IF R.err # "none" \/ n = 0 THEN R
  ELSE LET R1 == Take(fields, R, "str")
       IN ReadDictStrings(fields,
            IF R1.err # "none" THEN R1
            ELSE [R1 EXCEPT !.sd.strings = Append(@, R1.f.s)], n - 1)

ReadDictionary(fields, R) ==
  IF R.sd.dummy THEN R
  ELSE LET R1 == Take(fields, R, R.sd.lsz)
       IN IF R1.err # "none" THEN R1 ELSE ReadDictStrings(fields, R1, R1.f.n)

\* The element headers, lines 891-895.
RECURSIVE ReadHeaders(_, _, _)
ReadHeaders(fields, R, n) ==
  IF R.err # "none" \/ n <= 0 THEN R
  ELSE LET R1 == ReadString(fields, R)
           R2 == IF R.ver >= 4 THEN ReadString(fields, R1) ELSE Take(fields, R1, "str")
           R3 == Take(fields, R2, "uuid")
       IN IF R3.err # "none" THEN R3
          ELSE ReadHeaders(fields,
                 [R3 EXCEPT !.w = AddElementIn(R3.w, LoadDM, R2.f.s, R1.f.s,
                                               FromBytesLe(R3.f.u), FALSE)],
                 n - 1)

\* get_value for an Element, lines 899-906: the value is left in R.v.
ReadElemRef(fields, R) ==
  LET R1 == Take(fields, R, "int") IN
    IF R1.err # "none" THEN R1
    ELSE IF R1.f.n = -1 THEN [R1 EXCEPT !.v = VNull]
    ELSE IF R1.f.n = -2
    THEN LET R2 == Take(fields, R1, "str")
         IN IF R2.err # "none" THEN R2
            ELSE LET w1 == AddElementIn(R2.w, LoadDM, "Missing element", "DmElement",
                                        R2.f.u, TRUE)
                 IN [R2 EXCEPT !.w = w1, !.v = VElem(Len(w1.elems))]
    ELSE IF R1.f.n + 1 \in 1..Len(R1.w.list[LoadDM])
    THEN [R1 EXCEPT !.v = VElem(R1.w.list[LoadDM][R1.f.n + 1])]
    ELSE [R1 EXCEPT !.err = "IndexError"]

\* The items of an array, lines 942-946; acc collects them.
RECURSIVE ReadElemItems(_, _, _, _)
ReadElemItems(fields, R, n, acc) ==
  IF R.err # "none" THEN R
  ELSE IF n <= 0 THEN [R EXCEPT !.v = VEArr(acc)]
  ELSE LET R1 == ReadElemRef(fields, R)
       IN ReadElemItems(fields, R1, n - 1, Append(acc, R1.v.e))

RECURSIVE ReadStrItems(_, _, _, _)
ReadStrItems(fields, R, n, acc) ==
  IF R.err # "none" THEN R
  ELSE IF n <= 0 THEN [R EXCEPT !.v = VSArr(acc)]
  ELSE LET R1 == Take(fields, R, "str")
       IN ReadStrItems(fields, R1, n - 1, Append(acc, R1.f.s))

\* get_value and the array branch for one attribute type, lines 898-946.
ReadValue(fields, R, t) ==
  IF t = "elem" THEN ReadElemRef(fields, R)
  ELSE IF t = "int"
  THEN LET R1 == Take(fields, R, "int") IN [R1 EXCEPT !.v = VInt(R1.f.n)]
  ELSE IF t = "str"
  THEN LET R1 == IF R.ver < 4 THEN Take(fields, R, "str") ELSE ReadString(fields, R)
       IN [R1 EXCEPT !.v = VStr(R1.f.s)]
  ELSE IF t = "earr"
  THEN LET R1 == Take(fields, R, "int") IN ReadElemItems(fields, R1, R1.f.n, <<>>)
  ELSE IF t = "sarr"
  THEN LET R1 == Take(fields, R, "int") IN ReadStrItems(fields, R1, R1.f.n, <<>>)
  ELSE [R EXCEPT !.err = "TypeError"]

\* The attributes of one element, lines 934-946.
RECURSIVE ReadAttrs(_, _, _, _)
ReadAttrs(fields, R, elem, n) ==
  IF R.err # "none" \/ n <= 0 THEN R
  ELSE LET R1 == ReadString(fields, R)
           R2 == Take(fields, R1, "byte")
           R3 == IF R2.err # "none" THEN R2 ELSE ReadValue(fields, R2, TypeOfId(R2.f.n))
       IN IF R3.err # "none" THEN R3
          ELSE ReadAttrs(fields, [R3 EXCEPT !.w = LoadSet(R3.w, elem, R1.f.s, R3.v)],
                         elem, n - 1)

\* The loop over dm.elements, lines 930-946; placeholders made on the way
\* are appended to the list the loop runs over.
RECURSIVE ReadProps(_, _, _)
ReadProps(fields, R, i) ==
  IF R.err # "none" \/ i > Len(R.w.list[LoadDM]) THEN R
  ELSE LET elem == R.w.list[LoadDM][i] IN
    IF R.w.elems[elem].ph THEN ReadProps(fields, R, i + 1)
    ELSE LET R1 == Take(fields, R, "int")
         IN ReadProps(fields,
              IF R1.err # "none" THEN R1 ELSE ReadAttrs(fields, R1, elem, R1.f.n),
              i + 1)

\* The binary branch of load, lines 883-946: [w, err].
LoadBinary(fields, enc, ver) ==
  LET R0 == [pos |-> 1, w |-> NewLoadWorld, sd |-> DictFor(enc, ver, <<>>), ver |-> ver,
             err |-> "none", f |-> FInt(0), v |-> VNull]
      R1 == ReadDictionary(fields, R0)
      R2 == Take(fields, R1, "int")
      R3 == IF R2.err # "none" THEN R2 ELSE ReadHeaders(fields, R2, R2.f.n)
      R4 == ReadProps(fields, R3, 1)
  IN [w |-> R4.w, err |-> R4.err]

\* ------------------------------------------------------------------ load
\* What load returns or raises: [err, hdr, w, pos].  pos tells how far
\* in_file was read: "start" (nothing), "header" (up to the first ">",
\* lines 717-720) or "body".  A header that neither grammar matches raises
\* "Could not read DMX header" (lines 716-738); check_support comes next
\* (line 740), then the body.
\* closed tells whether in_file.close() was called.
Loaded(e, hdr, w, pos) ==
  [err |-> e, hdr |-> hdr, w |-> w, pos |-> pos, closed |-> FALSE]

NotLoaded == Loaded("unset", NoHeader, NewLoadWorld, "start")

\* The encoding and version a header yields, lines 722-736.
HeaderEnc(hdr) == IF hdr.kind = "proto2" THEN "binary_proto" ELSE hdr.enc

\* DataModel(format, format_ver) as built at line 741.
HeaderFormat(hdr) ==
  IF hdr.kind = "proto2" THEN Header("dmx", "", 0, "undefined_format", 0)
  ELSE Header("dmx", "", 0, hdr.fmt, hdr.fmtver)

\* The body of the try statement, lines 713-947.  The header loop (lines
\* 717-720) reads up to the first ">"; in a stream without one get_char
\* (lines 69-72) returns '' for ever at the end of a text stream, and
\* raises struct.error, which becomes the header error, at the end of a
\* binary one.  Such a stream has the header kind "unterminated".
\* element_path is the list of names given to load, <<>> when none was.
LoadStream(stream, element_path) ==
  IF stream.hdr.kind = "unterminated" /\ stream.kind = "text"
  THEN Loaded("hang", NoHeader, NewLoadWorld, "header")
  ELSE IF stream.hdr.kind \notin {"dmx", "proto2"}
  THEN Loaded("Exception", NoHeader, NewLoadWorld, "header")
  ELSE IF ~Supported(HeaderEnc(stream.hdr), stream.hdr.ver)
  THEN Loaded("ValueError", NoHeader, NewLoadWorld, "header")
  ELSE LET r == IF HeaderEnc(stream.hdr) = "keyvalues2"
                THEN LoadKv2(stream.body, element_path)
                ELSE LoadBinary(stream.body, HeaderEnc(stream.hdr), stream.hdr.ver)
       IN IF r.err # "none" THEN Loaded(r.err, NoHeader, NewLoadWorld, "body")
          ELSE Loaded("none", HeaderFormat(stream.hdr), r.w, "body")

\* A close at the end of the try body only, which an exception skips.
FinallyOnReturn(r) == IF r.err = "none" THEN [r EXCEPT !.closed = TRUE] ELSE r

\* "finally: if in_file: in_file.close()", lines 948-951; a call that never
\* returns never gets there.
Finally(r) == IF r.err = "hang" THEN r ELSE [r EXCEPT !.closed = TRUE]

\* load(path, in_file, element_path), lines 705-951.  path is given as the
\* stream that the file at the path holds (NoStream: no path), in_file as
\* the stream (NoStream: none), element_path as "None" or as "str", a value
\* that is not a list.  The arguments are tested before the try statement
\* (lines 706-709); open(path, 'rb') gives a binary file (line 711).
LoadCall(path, stream, element_path) ==
  IF (path # NoStream) = (stream # NoStream) THEN [NotLoaded EXCEPT !.err = "ValueError"]
  ELSE IF element_path # "None" THEN [NotLoaded EXCEPT !.err = "TypeError"]
  ELSE Finally(LoadStream(IF stream # NoStream THEN stream
                          ELSE [path EXCEPT !.kind = "bytes"], <<>>))

\* load(in_file = stream, element_path = element_path) with a list of names.
LoadPathCall(stream, element_path) == Finally(LoadStream(stream, element_path))

\* ------------------------------------------------------------------ echo
\* The writer fields of a DataModel: self.out, self.encoding,
\* self.encoding_ver, self._string_dict and self.elem_chain.
Writer(out, enc, ver, sd, chain) ==
  [out |-> out, encoding |-> enc, encoding_ver |-> ver, sd |-> sd, chain |-> chain]

NewWriter == Writer(NoStream, "", 0, SdUnset, <<>>)

\* DataModel(format, format_ver) as the exporter makes it
\* (export_smd.py line 1053).
DmFormat == "model"

DmFormatVer == 1

\* The lines written before the last blank line: echo hands the text of an
\* element to self.out only when its get_kv2 has returned.
Completed(lines) ==
  LET blanks == {i \in 1..Len(lines) : IsBlank(lines[i])}
  IN IF blanks = {} THEN <<>>
     ELSE SubSeq(lines, 1, CHOOSE i \in blanks : \A j \in blanks : j <= i)

\* DataModel.echo(encoding, encoding_ver), lines 638-696, on the graph w with
\* the writer fields wrt of dm and the module-level _kv2_indent; order is the
\* order in which the set of dictionary strings is enumerated (line 505).
\* The result is [w, wrt, indent, ret, err].
Echoed(w, wrt, indent, ret, e) ==
  [w |-> w, wrt |-> wrt, indent |-> indent, ret |-> ret, err |-> e]

EchoIn(w, wrt, indent, dm, enc, ver, order) ==
  IF ~Supported(enc, ver) THEN Echoed(w, wrt, indent, NoStream, "ValueError")
  ELSE
    LET binary == enc \in {"binary", "binary_proto"}
        hdr == MakeHeader(enc, ver, DmFormat, DmFormatVer)
        kind == IF binary THEN "bytes" ELSE "text"
        indent1 == IF binary THEN indent ELSE 0
        wrt1 == [wrt EXCEPT !.out = Stream(kind, hdr, <<>>), !.encoding = enc,
                            !.encoding_ver = ver]
    IN
    IF enc = "binary" /\ ver # 1 /\ w.root[dm] = 0
    THEN Echoed(w, wrt1, indent1, NoStream, "AttributeError")
    ELSE
      LET sd == IF enc = "binary" THEN SdSet(DictFor(enc, ver, order)) ELSE wrt.sd
          dictFields == IF enc = "binary" THEN WriteDictionary(sd.d) ELSE <<>>
          wrt2 == [wrt1 EXCEPT !.sd = sd, !.out.body = dictFields]
      IN
      IF w.root[dm] = 0
      THEN Echoed(ResetUsers(w, dm), wrt2, indent1, NoStream, "TypeError")
      ELSE
        LET cnt == CountUsers(w, dm) IN
        IF binary
        THEN LET b == WriteBinary(cnt.w, dm, sd, ver, cnt.out)
                 wrt3 == [wrt2 EXCEPT !.out.body = @ \o b.fields, !.chain = b.chain]
             IN IF b.err # "none" THEN Echoed(cnt.w, wrt3, indent1, NoStream, b.err)
                ELSE Echoed(cnt.w, [wrt3 EXCEPT !.sd = SdNone], indent1, wrt3.out, "none")
        ELSE LET run == RunSteps(NewRun(indent1), Kv2Steps(cnt.w, dm, cnt.out))
                 wrt3 == [wrt2 EXCEPT !.out.body =
                                        IF run.err THEN Completed(run.lines) ELSE run.lines]
             IN IF run.err THEN Echoed(cnt.w, wrt3, run.indent, NoStream, "RecursionError")
                ELSE Echoed(cnt.w, [wrt3 EXCEPT !.sd = SdNone], run.indent, wrt3.out, "none")

\* The orders in which echo can enumerate its dictionary strings; a dummy
\* dictionary and a text or binary_proto echo enumerate nothing.
DictOrders(w, dm, enc, ver) ==
  IF enc = "binary" /\ ver \in {2, 3, 4, 5} /\ w.root[dm] # 0
  THEN Orders(DictStrings(w, dm))
  ELSE {<<>>}

\* ------------------------------------------------------------ the actions
VARIABLES
  kv2_indent,  \* the module-level _kv2_indent
  writer,      \* the writer fields of each DataModel
  ret,         \* what the last call returned: the stream of an echo, the
               \* value of a lookup, the result of find_elements
  in_file,     \* the stream the last call read, if it was a load
  loaded,      \* what that load returned or raised
  file,        \* the file at the path that write opens
  open_handles, \* the streams the last call left open when it exited
  threads      \* the echo each thread is running, one thread per DataModel

TheWorld == World(elems, dmElements, dmRoot)

\* A thread is idle, running its echo at step pc of steps, done (out is what
\* echo returned) or raised.
Thread(st, pc, steps, run, out) ==
  [st |-> st, pc |-> pc, steps |-> steps, run |-> run, out |-> out]

IdleThread == Thread("idle", 0, <<>>, NewRun(0), NoStream)

vars ==
  <<elems, dmElements, dmRoot, err, kv2_indent, writer, ret, in_file, loaded, file, open_handles,
    threads>>

Init ==
  /\ elems = <<>>
  /\ dmElements = [dm \in DMs |-> <<>>]
  /\ dmRoot = [dm \in DMs |-> 0]
  /\ err = "none"
  /\ kv2_indent = 0
  /\ writer = [dm \in DMs |-> NewWriter]
  /\ ret = NoStream
  /\ in_file = NoStream
  /\ loaded = NotLoaded
  /\ file = NoStream
  /\ open_handles = {}
  /\ threads = [dm \in DMs |-> IdleThread]

\* No call is made after a call that never returns.
Returned == loaded.err # "hang"

\* The caller's graph becomes w.
GraphBecomes(w) ==
  /\ elems' = w.elems
  /\ dmElements' = w.list
  /\ dmRoot' = w.root

\* dm.add_element(name, elemtype, id, _is_placeholder)
AddElement(dm, name, elemtype, id, ph) ==
  /\ Returned
  /\ GraphBecomes(AddElementIn(TheWorld, dm, name, elemtype, id, ph))
  /\ err' = "none"
  /\ ret' = NoStream
  /\ in_file' = NoStream
  /\ loaded' = NotLoaded
  /\ open_handles' = {}
  /\ UNCHANGED <<kv2_indent, writer, file, threads>>

\* self[key] = item
SetItemDone(r) ==
  /\ GraphBecomes(r.w)
  /\ err' = r.err

SetItem(self, key, item) ==
  /\ Returned
  /\ self \in 1..Len(elems)
  /\ \A t \in Range(ValTargets(item)) : t \in 1..Len(elems)
  /\ \E order \in Orders(elems[self].dms) :
       SetItemDone(SetItemIn(TheWorld, self, key, item, order))
  /\ ret' = NoStream
  /\ in_file' = NoStream
  /\ loaded' = NotLoaded
  /\ open_handles' = {}
  /\ UNCHANGED <<kv2_indent, writer, file, threads>>

\* dm.echo(enc, ver)
EchoDone(dm, r) ==
  /\ elems' = r.w.elems
  /\ writer' = [writer EXCEPT ![dm] = r.wrt]
  /\ kv2_indent' = r.indent
  /\ ret' = r.ret
  /\ err' = r.err

Echo(dm, enc, ver) ==
  /\ Returned
  /\ in_file' = NoStream
  /\ loaded' = NotLoaded
  /\ open_handles' = {}
  /\ UNCHANGED <<dmElements, dmRoot, file, threads>>
  /\ \E order \in DictOrders(TheWorld, dm, enc, ver) :
       EchoDone(dm, EchoIn(TheWorld, writer[dm], kv2_indent, dm, enc, ver, order))

\* dm.write(path, enc, ver): open(path, 'w' or 'wb') creates the file or
\* empties it (line 699) before echo runs; what echo returns is written to
\* it, and an echo that raises leaves it empty.  write returns nothing.
\* The with statement closes the file when its body returns and when it
\* raises.
EmptyFile == Stream("empty", NoHeader, <<>>)

WriteDone(dm, r) ==
  /\ elems' = r.w.elems
  /\ writer' = [writer EXCEPT ![dm] = r.wrt]
  /\ kv2_indent' = r.indent
  /\ err' = r.err
  /\ file' = IF r.err = "none" THEN r.ret ELSE EmptyFile

Write(dm, enc, ver) ==
  /\ Returned
  /\ ret' = NoStream
  /\ open_handles' = {}
  /\ in_file' = NoStream
  /\ loaded' = NotLoaded
  /\ UNCHANGED <<dmElements, dmRoot, threads>>
  /\ \E order \in DictOrders(TheWorld, dm, enc, ver) :
       WriteDone(dm, EchoIn(TheWorld, writer[dm], kv2_indent, dm, enc, ver, order))

\* The text of a keyvalues2 stream with its UUIDs spelled in upper case.
UpperIds(stream) ==
  [stream EXCEPT !.body =
     [i \in 1..Len(stream.body) |->
        [stream.body[i] EXCEPT !.toks =
           [j \in 1..Len(stream.body[i].toks) |->
              IF stream.body[i].toks[j].k = "u"
              THEN [stream.body[i].toks[j] EXCEPT !.s = "upper"]
              ELSE stream.body[i].toks[j]]]]]

\* load(path, in_file, element_path).  The stream is left open when a
\* stream was given, or the file at path was opened (line 711, after the
\* tests of the arguments), and close was not called.
LoadDone(r, given) ==
  /\ loaded' = r
  /\ err' = r.err
  /\ open_handles' = IF ~r.closed /\ (given \/ r.pos # "start") THEN {"in_file"} ELSE {}

LoadArgs(path, stream, element_path) ==
  /\ Returned
  /\ path # NoStream \/ stream # NoStream
  /\ in_file' = IF stream # NoStream THEN stream ELSE path
  /\ UNCHANGED <<elems, dmElements, dmRoot, kv2_indent, writer, ret, file, threads>>
  /\ LoadDone(LoadCall(path, stream, element_path), stream # NoStream)

\* load(in_file = stream)
Load(stream) == LoadArgs(NoStream, stream, "None")

\* load(in_file = stream, element_path = element_path)
LoadPath(stream, element_path) ==
  /\ Returned
  /\ stream # NoStream
  /\ in_file' = stream
  /\ UNCHANGED <<elems, dmElements, dmRoot, kv2_indent, writer, ret, file, threads>>
  /\ LoadDone(LoadPathCall(stream, element_path), TRUE)

\* dm.echo("keyvalues2", 1) run by a thread of its own, in three kinds of
\* step.  The first is lines 639-682: the check, self.out, _kv2_indent = 0,
\* the header and the count of users.  Then comes one step of the writer at
\* a time, each reading and writing the module's _kv2_indent where echo run
\* alone reads and writes it; the last is lines 695-696.  Another thread
\* runs between any two steps.
ThreadBegun(dm, cnt) ==
  /\ elems' = cnt.w.elems
  /\ threads' = [threads EXCEPT ![dm] =
                   Thread("running", 1, Kv2Steps(cnt.w, dm, cnt.out), NewRun(0), NoStream)]

ThreadStart(dm) ==
  /\ threads[dm].st = "idle"
  /\ dmRoot[dm] # 0
  /\ ThreadBegun(dm, CountUsers(TheWorld, dm))
  /\ kv2_indent' = 0
  /\ writer' = [writer EXCEPT ![dm].out =
                  Stream("text", MakeHeader("keyvalues2", 1, DmFormat, DmFormatVer), <<>>),
                                ![dm].encoding = "keyvalues2",
                                ![dm].encoding_ver = 1]
  /\ UNCHANGED <<dmElements, dmRoot, err, ret, in_file, loaded, file, open_handles>>

ThreadStepped(dm, run) ==
  /\ kv2_indent' = run.indent
  /\ threads' = [threads EXCEPT ![dm].run = [run EXCEPT !.indent = 0],
                                 ![dm].pc = @ + 1,
                                 ![dm].st = IF run.err THEN "raised" ELSE @]

ThreadStep(dm) ==
  /\ threads[dm].st = "running"
  /\ threads[dm].pc <= Len(threads[dm].steps)
  /\ ThreadStepped(dm, RunStep([threads[dm].run EXCEPT !.indent = kv2_indent],
                               threads[dm].steps[threads[dm].pc]))
  /\ UNCHANGED <<elems, dmElements, dmRoot, err, writer, ret, in_file, loaded, file,
                 open_handles>>

ThreadReturn(dm) ==
  /\ threads[dm].st = "running"
  /\ threads[dm].pc > Len(threads[dm].steps)
  /\ writer' = [writer EXCEPT ![dm].out.body = threads[dm].run.lines, ![dm].sd = SdNone]
  /\ threads' = [threads EXCEPT ![dm].st = "done",
                                 ![dm].out = [writer[dm].out EXCEPT !.body = threads[dm].run.lines]]
  /\ UNCHANGED <<elems, dmElements, dmRoot, err, kv2_indent, ret, in_file, loaded, file,
                 open_handles>>

\* ------------------------------------------------------------ reachability
\* The elements reachable from the elements of S through attributes.
RECURSIVE ReachFrom(_, _)
ReachFrom(w, S) ==
  LET T == S \cup UNION {Range(AttrTargets(w.elems[e].attrs)) : e \in S}
  IN IF T = S THEN S ELSE ReachFrom(w, T)

\* ------------------------------------------------- inputs of the graph runs
NumIds == 2

\* The ids a caller passes: one already in use, or the next unused one (ids
\* are interchangeable, so the choice of a fresh id is made once).
UsedIds == {elems[e].id : e \in 1..Len(elems)}

IdChoices == {MkId(n) : n \in 1..NumIds} \cap (UsedIds \cup {MkId(Cardinality(UsedIds) + 1)})

\* The first element is added to DataModel "A" (the two are interchangeable).
DmChoices == IF elems = <<>> THEN {"A"} ELSE DMs

GraphKeys == {"a"}

GraphValues ==
  {VElem(e) : e \in 1..Len(elems)} \cup {VEArr(<<e>>) : e \in 1..Len(elems)}

NextGraph ==
  \/ \E dm \in DmChoices, id \in IdChoices, ph \in BOOLEAN :
       Len(elems) < MaxElems /\ AddElement(dm, "n", "DmElement", id, ph)
  \/ \E self \in 1..Len(elems), key \in GraphKeys, item \in GraphValues :
       SetItem(self, key, item)

SpecGraph == Init /\ [][NextGraph]_vars

\* -------------------------------------------------- inputs of the echo runs
\* The echo runs build a graph in one DataModel, then echo it and load what
\* was echoed; the graph is not changed once an echo has left its traces.
MaxEchoElems == 2

MaxArr == 1

MaxAttrs == 2

RECURSIVE SeqsUpTo(_, _)
SeqsUpTo(S, n) ==
  IF n = 0 THEN {<<>>}
  ELSE LET shorter == SeqsUpTo(S, n - 1)
       IN shorter \cup {Append(q, x) : q \in {r \in shorter : Len(r) = n - 1}, x \in S}

ElemValues ==
  {VElem(e) : e \in 1..Len(elems)}
    \cup {VEArr(q) : q \in SeqsUpTo(1..Len(elems), MaxArr)}

RECURSIVE AttrCount(_)
AttrCount(n) == IF n = 0 THEN 0 ELSE Len(elems[n].attrs) + AttrCount(n - 1)

\* An assignment the runs make: one that replaces a value or stays within
\* the number of attributes of the run.
WithinAttrs(self, key) ==
  HasAttr(elems[self], key) \/ AttrCount(Len(elems)) < MaxAttrs

NoEchoYet == writer = [dm \in DMs |-> NewWriter]

EchoKeys == {"a", "b"}

EchoNames == {"", "n"}

\* Any ids, names and placeholders; keyvalues2 echo, and load of the text
\* echoed, as written or with its UUIDs in upper case.
Next ==
  \/ \E name \in EchoNames, id \in IdChoices, ph \in BOOLEAN :
       /\ NoEchoYet
       /\ Len(elems) < MaxEchoElems
       /\ AddElement("A", name, "DmElement", id, ph)
  \/ \E self \in 1..Len(elems), key \in EchoKeys, item \in ElemValues :
       /\ NoEchoYet
       /\ WithinAttrs(self, key)
       /\ SetItem(self, key, item)
  \/ Echo("A", "keyvalues2", 1)
  \/ in_file = NoStream /\ Load(ret)
  \/ in_file = NoStream /\ Load(UpperIds(ret))

Spec == Init /\ [][Next]_vars

\* Elements with ids of their own, none a placeholder; keyvalues2 echo.  An
\* assignment makes a new attribute, an element's first under the key "a"
\* and its second under "b": the keys are interchangeable, and an assignment
\* that replaces a value makes a graph that an assignment of that value in
\* the first place makes too.
FreshKey(self) == IF elems[self].attrs = <<>> THEN "a" ELSE "b"

NextSlots ==
  \/ /\ NoEchoYet
     /\ Len(elems) < MaxEchoElems
     /\ AddElement("A", "n", "DmElement", MkId(Len(elems) + 1), FALSE)
  \/ \E self \in 1..Len(elems), item \in ElemValues :
       /\ NoEchoYet
       /\ ~HasAttr(elems[self], FreshKey(self))
       /\ WithinAttrs(self, FreshKey(self))
       /\ SetItem(self, FreshKey(self), item)
  \/ Echo("A", "keyvalues2", 1)

SpecSlots == Init /\ [][NextSlots]_vars

\* Elements with ids of their own, every supported encoding, and load of what
\* was echoed.
SupportedPairs ==
  {<<"binary", v>> : v \in 1..5} \cup {<<"keyvalues2", 1>>, <<"binary_proto", 2>>}

BinKeys == {"a"}

BinValues == ElemValues \cup {VNull, VInt(7), VStr("n")}

NextBin ==
  \/ /\ NoEchoYet
     /\ Len(elems) < MaxEchoElems
     /\ AddElement("A", "n", "DmElement", MkId(Len(elems) + 1), FALSE)
  \/ \E self \in 1..Len(elems), key \in BinKeys, item \in BinValues :
       /\ NoEchoYet
       /\ SetItem(self, key, item)
  \/ \E pair \in SupportedPairs : Echo("A", pair[1], pair[2])
  \/ in_file = NoStream /\ Load(ret)

SpecBin == Init /\ [][NextBin]_vars

\* -------------------------------------------------------------------- C3
\* C3: no DataModel's element list holds two distinct non-placeholder
\* elements with the same id (add_element with an id in use must fail and
\* add nothing).
C3_UniqueIds ==
  \A dm \in DMs : \A i, j \in 1..Len(dmElements[dm]) :
    LET x == dmElements[dm][i]
        y == dmElements[dm][j]
    IN (x # y /\ ~elems[x].ph /\ ~elems[y].ph) => elems[x].id # elems[y].id

\* -------------------------------------------------------------------- C2
\* The non-placeholder elements an assignment of item to self would bring
\* into some owner dm of self although dm already holds another
\* non-placeholder element with that id.
Colliding(self, item) ==
  {x \in ReachFrom(TheWorld, Range(ValTargets(item))) :
     /\ ~elems[x].ph
     /\ \E dm \in elems[self].dms :
          /\ x \notin Range(dmElements[dm])
          /\ \E y \in Range(dmElements[dm]) :
               y # x /\ ~elems[y].ph /\ elems[y].id = elems[x].id}

\* C2: an assignment that would import a non-placeholder element whose id a
\* non-placeholder element of the target DataModel already has raises
\* IDCollisionError, and an assignment that raises it leaves the element
\* lists, the owner sets and the attributes as they were, also when the
\* colliding element is a descendant of the assigned one (here for
\* assignments made while no DataModel holds two distinct non-placeholder
\* elements with one id).
C2_CollisionAtomic ==
  [][C3_UniqueIds =>
       \A self \in 1..Len(elems), key \in GraphKeys, item \in GraphValues :
         (SetItem(self, key, item) /\ Colliding(self, item) # {})
           => /\ err' = "IDCollisionError"
              /\ UNCHANGED <<elems, dmElements, dmRoot>>]_vars

\* -------------------------------------------------------------------- C8
\* C8: when an assignment storing an Element or an element array succeeds,
\* the stored elements and everything reachable from them are in the element
\* list of every DataModel that owns the target element (here for
\* assignments made while no DataModel holds two distinct non-placeholder
\* elements with one id).
C8_ImportClosure ==
  [][C3_UniqueIds =>
       \A self \in 1..Len(elems), key \in GraphKeys, item \in GraphValues :
         (SetItem(self, key, item) /\ err' = "none")
           => \A dm \in elems'[self].dms :
                ReachFrom(World(elems', dmElements', dmRoot'), Range(ValTargets(item)))
                  \subseteq Range(dmElements'[dm])]_vars

\* -------------------------------------------------------------------- C4
\* The number of attribute slots (scalar element attributes and entries of
\* element arrays) of the elements of S whose value is x.
RECURSIVE Occurrences(_, _)
Occurrences(targets, x) ==
  IF targets = <<>> THEN 0
  ELSE (IF Head(targets) = x THEN 1 ELSE 0) + Occurrences(Tail(targets), x)

RECURSIVE SlotsIn(_, _, _)
SlotsIn(w, S, x) ==
  IF S = {} THEN 0
  ELSE LET y == CHOOSE y \in S : TRUE
       IN Occurrences(AttrTargets(w.elems[y].attrs), x) + SlotsIn(w, S \ {y}, x)

FromRoot(dm) == ReachFrom(TheWorld, {dmRoot[dm]})

\* The last call was an echo of dm that returned its output.
JustEchoed(dm) == dmRoot[dm] # 0 /\ ret.kind # "none" /\ ret = writer[dm].out

\* C4: when echo returns, the _users of every element reachable from the root
\* is the number of attribute slots, in elements reachable from the root,
\* that hold it (here for graphs in which no two distinct non-placeholder
\* elements of a DataModel have one id).
C4_UsersAreSlots ==
  \A dm \in DMs :
    (JustEchoed(dm) /\ C3_UniqueIds) =>
      \A x \in FromRoot(dm) : elems[x].users = SlotsIn(TheWorld, FromRoot(dm), x)

\* -------------------------------------------------------------------- C9
IsIdLine(line) ==
  /\ Len(line.toks) = 3 /\ line.toks[1] = TStr("id") /\ line.toks[2] = TStr("elementid")
  /\ line.toks[3].k = "u"

\* C9: a keyvalues2 echo writes no block with id and name lines for a
\* placeholder: every id line carries the id of a non-placeholder element
\* (here for graphs whose root is not a placeholder).
C9_NoPlaceholderBody ==
  (ret.kind = "text" /\ \A dm \in DMs : JustEchoed(dm) => ~elems[dmRoot[dm]].ph) =>
    \A i \in 1..Len(ret.body) :
      IsIdLine(ret.body[i]) =>
        \E e \in 1..Len(elems) : ~elems[e].ph /\ elems[e].id = ret.body[i].toks[3].u

\* -------------------------------------------------------------------- C6
\* The ids the loaded keyvalues2 text defines.
DefinedIds ==
  {in_file.body[i].toks[3].u :
     i \in {j \in 1..Len(in_file.body) : IsIdLine(in_file.body[j])}}

LoadedKv2 == in_file.kind = "text" /\ loaded.err = "none"

LoadedSlots ==
  UNION {Range(AttrTargets(loaded.w.elems[y].attrs)) : y \in 1..Len(loaded.w.elems)}

\* C6: after a keyvalues2 read no slot holds a placeholder for an id the text
\* defines, and all the slots that refer to one defined id hold one element.
C6_ReferencesResolved ==
  LoadedKv2 =>
    \A t \in LoadedSlots :
      loaded.w.elems[t].id \in DefinedIds =>
        /\ ~loaded.w.elems[t].ph
        /\ \A u \in LoadedSlots : loaded.w.elems[u].id = loaded.w.elems[t].id => u = t

\* -------------------------------------------------------------------- C5
\* Reading the echoed keyvalues2 text: the id of the element in whose block
\* line i lies, when that block's lines are indented by ind.
OwnerId(i, ind) ==
  LET S == {j \in 1..(i - 1) : IsIdLine(ret.body[j]) /\ ret.body[j].ind = ind}
  IN IF S = {} THEN NoId
     ELSE ret.body[CHOOSE j \in S : \A m \in S : m <= j].toks[3].u

\* Line i is followed by the body of the element with identifier id.
BodyFollows(i, id) ==
  /\ i + 2 <= Len(ret.body)
  /\ ret.body[i + 1].toks = <<>> /\ ret.body[i + 1].sym = "{"
  /\ IsIdLine(ret.body[i + 2]) /\ ret.body[i + 2].toks[3] = TId(id)

\* The lines that write attribute k of the element with identifier owner.
AttrLines(owner, k) ==
  {i \in 1..Len(ret.body) :
     /\ Len(ret.body[i].toks) >= 2 /\ ret.body[i].toks[1] = TStr(k)
     /\ OwnerId(i, ret.body[i].ind) = owner}

\* The lines of the entries of the array whose header is line i.
ItemLines(i) ==
  LET closes == {j \in (i + 1)..Len(ret.body) :
                   ret.body[j].sym = "]" /\ ret.body[j].ind = ret.body[i].ind}
      close == CHOOSE j \in closes : \A m \in closes : j <= m
  IN {j \in (i + 1)..(close - 1) :
        ret.body[j].ind = ret.body[i].ind + 1 /\ ret.body[j].toks # <<>>}

ItemLine(i, p) ==
  CHOOSE j \in ItemLines(i) : Cardinality({m \in ItemLines(i) : m <= j}) = p

\* How the slot written on line i appears: as a reference to id, or as the
\* nested body of the element t.
IsReference(i, id) ==
  /\ ret.body[i].toks[Len(ret.body[i].toks)] = TId(id)
  /\ ret.body[i].toks[Len(ret.body[i].toks) - 1] = TStr("element")

IsNested(i, t) ==
  /\ ret.body[i].toks[Len(ret.body[i].toks)] = TStr(elems[t].type)
  /\ BodyFollows(i, elems[t].id)

SlotWritten(i, t) ==
  /\ elems[t].users = 1 => IsNested(i, t) /\ ~IsReference(i, elems[t].id)
  /\ elems[t].users > 1 => IsReference(i, elems[t].id) /\ ~IsNested(i, t)

\* C5: in keyvalues2 output every element-valued slot of an element reachable
\* from the root, a scalar attribute or an entry of an element array, is
\* written as the nested body of its target when the target's multiplicity is
\* 1 and as a bare "element" reference with the target's id when it is more
\* (the slots are found in the text by the id of their element, so the
\* elements have ids of their own).
C5_SlotForms ==
  \A dm \in DMs :
    (JustEchoed(dm) /\ ret.kind = "text") =>
      \A y \in FromRoot(dm) : \A n \in 1..Len(elems[y].attrs) :
        LET k == elems[y].attrs[n].k
            v == elems[y].attrs[n].v
        IN (v.t = "elem" \/ (v.t = "earr" /\ v.a # <<>>)) =>
             /\ AttrLines(elems[y].id, k) # {}
             /\ \A i \in AttrLines(elems[y].id, k) :
                  IF v.t = "elem" THEN SlotWritten(i, v.e)
                  ELSE /\ Cardinality(ItemLines(i)) = Len(v.a)
                       /\ \A p \in 1..Len(v.a) : SlotWritten(ItemLine(i, p), v.a[p])

\* A graph in which an element is held by two slots of another element, one
\* of them an array entry, has been echoed.
C5_Witness ==
  /\ JustEchoed("A") /\ ret.kind = "text"
  /\ \E y \in FromRoot("A") : \E n \in 1..Len(elems[y].attrs) :
       LET v == elems[y].attrs[n].v
       IN v.t = "earr" /\ v.a # <<>> /\ v.a[1] # y /\ elems[v.a[1]].users = 2

\* -------------------------------------------------------------------- C1
\* Element x of graph w1 and element y of graph w2 have the same id, name and
\* type and the same attribute keys in the same order with equal values,
\* element references compared by target id and followed depth levels down.
RECURSIVE SameElement(_, _, _, _, _)
SameValue(w1, v1, w2, v2, depth) ==
  /\ v1.t = v2.t
  /\ v1.t \notin {"elem", "earr"} => v1 = v2
  /\ Len(ValTargets(v1)) = Len(ValTargets(v2))
  /\ \A p \in 1..Len(ValTargets(v1)) :
       /\ w1.elems[ValTargets(v1)[p]].id = w2.elems[ValTargets(v2)[p]].id
       /\ depth > 0 => SameElement(w1, ValTargets(v1)[p], w2, ValTargets(v2)[p], depth - 1)

SameElement(w1, x, w2, y, depth) ==
  /\ w1.elems[x].id = w2.elems[y].id
  /\ w1.elems[x].name = w2.elems[y].name
  /\ w1.elems[x].type = w2.elems[y].type
  /\ Len(w1.elems[x].attrs) = Len(w2.elems[y].attrs)
  /\ \A n \in 1..Len(w1.elems[x].attrs) :
       /\ w1.elems[x].attrs[n].k = w2.elems[y].attrs[n].k
       /\ SameValue(w1, w1.elems[x].attrs[n].v, w2, w2.elems[y].attrs[n].v, depth)

ReachableIds(w, dm) == {w.elems[x].id : x \in ReachFrom(w, {w.root[dm]})}

\* C1: load of what echo returned gives a DataModel with the root's id, name
\* and type, the ids reachable from the root, and every element's attribute
\* keys in order with equal values.
C1_RoundTrip ==
  (in_file # NoStream /\ in_file = ret) =>
    /\ loaded.err = "none"
    /\ loaded.w.root[LoadDM] # 0
    /\ SameElement(TheWorld, dmRoot["A"], loaded.w, loaded.w.root[LoadDM], Len(elems))
    /\ ReachableIds(TheWorld, "A") = ReachableIds(loaded.w, LoadDM)

\* ----------------------------------------------- inputs of the support runs
\* Every encoding name with every version up to MaxVer is asked of echo and
\* write, and is put in the header of a stream handed to load; a run that
\* has written the file loads no more.
Encodings == {"binary", "keyvalues2", "binary_proto", "xml"}

MaxVer == 6

Versions == 0..MaxVer

MaxSupportElems == 1

\* The stream with its header naming another encoding and version.
WithHeader(stream, enc, ver) ==
  [stream EXCEPT !.hdr = MakeHeader(enc, ver, DmFormat, DmFormatVer)]

\* The headers put on a stream: a header that names keyvalues2 on text, one
\* that names a binary encoding on bytes, an unknown name on either.
HeaderFits(stream, enc) ==
  /\ stream.kind \in {"text", "bytes"}
  /\ enc = "keyvalues2" => stream.kind = "text"
  /\ enc \in {"binary", "binary_proto"} => stream.kind = "bytes"

NextSupport ==
  \/ /\ Len(elems) < MaxSupportElems
     /\ AddElement("A", "n", "DmElement", MkId(Len(elems) + 1), FALSE)
  \/ \E enc \in Encodings, ver \in Versions : Echo("A", enc, ver)
  \/ \E enc \in Encodings, ver \in Versions : Write("A", enc, ver)
  \/ \E enc \in Encodings, ver \in Versions :
       file = NoStream /\ HeaderFits(ret, enc) /\ Load(WithHeader(ret, enc, ver))

SpecSupport == Init /\ [][NextSupport]_vars

\* The graph and writer state that a call can change.
callState == <<elems, dmElements, dmRoot, kv2_indent, writer>>

MaxThreadElems == 1

NoThreadYet == threads = [dm \in DMs |-> IdleThread]

\* The values that keep the graph of self in its DataModel and acyclic: the
\* elements made after self in the same DataModel.
ThreadValues(self) ==
  {v \in ElemValues :
     \A t \in Range(ValTargets(v)) : t > self /\ elems[t].dms = elems[self].dms}

NextThreads ==
  \/ \E dm \in DMs :
       /\ NoThreadYet
       /\ Len(dmElements[dm]) < MaxThreadElems
       /\ AddElement(dm, "n", "DmElement", MkId(Len(elems) + 1), FALSE)
  \/ \E self \in 1..Len(elems), key \in GraphKeys :
       \E item \in ThreadValues(self) :
         NoThreadYet /\ SetItem(self, key, item)
  \/ \E dm \in DMs : ThreadStart(dm)
  \/ \E dm \in DMs : ThreadStep(dm)
  \/ \E dm \in DMs : ThreadReturn(dm)

SpecThreads == Init /\ [][NextThreads]_vars

\* What dm.echo("keyvalues2", 1) returns when it runs alone.
EchoAlone(dm) ==
  EchoIn(TheWorld, NewWriter, 0, dm, "keyvalues2", 1, <<>>).ret

\* C10: an echo that ran on a thread of its own while another thread echoed
\* another DataModel has returned what it returns when run alone.
C10_ThreadsIndependent ==
  \A dm \in DMs : threads[dm].st = "done" => threads[dm].out = EchoAlone(dm)

\* ------------------------------------------------------------------- C11
\* What a call of echo left behind is what r holds.
EchoOutcomeIs(r) == err' = r.err /\ ret' = r.ret

\* C11: what echo returns or raises is what echo returns or raises on a
\* DataModel with the same graph on which nothing was called before (up to
\* the order of the dictionary strings, which decodes to the same content).
C11_EchoForgetsEarlierCalls ==
  [][\A enc \in Encodings, ver \in Versions :
       Echo("A", enc, ver) =>
         \E order \in DictOrders(TheWorld, "A", enc, ver) :
           EchoOutcomeIs(EchoIn(TheWorld, NewWriter, 0, "A", enc, ver, order))
    ]_vars

\* ------------------------------------------------------------ streams cut short
\* Echo and write of small graphs, and load of what they gave: whole, cut
\* short, without a header, and with arguments that load rejects.
MaxStreamElems == 1

StreamValues == {VStr("s"), VElem(1)}

StreamPairs ==
  {<<"keyvalues2", 1>>, <<"binary", 1>>, <<"binary", 2>>, <<"binary", 5>>, <<"xml", 1>>}

\* The first n lines or fields of a stream, after its whole header.
Truncated(stream, n) == [stream EXCEPT !.body = SubSeq(@, 1, n)]

\* A stream without ">": the empty stream, or text that never closes a header.
Unterminated(kind) == Stream(kind, Header("unterminated", "", 0, "", 0), <<>>)

\* "<garbage>": a first line that matches neither header.
Garbage(kind) == Stream(kind, NoHeader, <<>>)

\* The arguments path, in_file and element_path of the calls of load: what
\* echo returned, whole and cut short; streams without a header; the file
\* that write wrote; and arguments that load rejects.
LoadArguments ==
  {<<NoStream, Truncated(ret, n), "None">> : n \in 0..Len(ret.body)}
    \cup {<<NoStream, Unterminated(kind), "None">> : kind \in {"text", "bytes"}}
    \cup {<<NoStream, Garbage(kind), "None">> : kind \in {"text", "bytes"}}
    \cup {<<file, NoStream, "None">>, <<file, Garbage("bytes"), "None">>,
          <<NoStream, ret, "str">>}

NextStreams ==
  \/ /\ NoEchoYet /\ ret = NoStream /\ file = NoStream
     /\ Len(elems) < MaxStreamElems
     /\ AddElement("A", "n", "DmElement", MkId(Len(elems) + 1), FALSE)
  \/ \E self \in 1..Len(elems), item \in StreamValues :
       /\ NoEchoYet /\ ret = NoStream /\ file = NoStream
       /\ elems[self].attrs = <<>>
       /\ SetItem(self, "a", item)
  \/ \E pair \in StreamPairs :
       ret = NoStream /\ file = NoStream /\ Echo("A", pair[1], pair[2])
  \/ \E pair \in StreamPairs :
       ret = NoStream /\ file = NoStream /\ Write("A", pair[1], pair[2])
  \/ \E args \in LoadArguments :
       /\ in_file = NoStream
       /\ args[1] # NoStream \/ args[2] # NoStream
       /\ LoadArgs(args[1], args[2], args[3])

SpecStreams == Init /\ [][NextStreams]_vars

\* ------------------------------------------------------------------- C12
\* The last call was a call of load that exited.
LoadExited == in_file # NoStream /\ loaded.err \notin {"unset", "hang"}

\* C12 as stated: whenever a call of load has exited, returning or raising,
\* its input stream is closed, and after write the output file is closed.
C12_ClosedOnEveryExit ==
  /\ LoadExited => "in_file" \notin open_handles
  /\ file # NoStream => "file" \notin open_handles

\* C12: whenever a call of load whose arguments passed the tests of lines
\* 706-709 has exited, returning or raising, its input stream is closed,
\* and after write, whether echo returned or raised, the output file is
\* closed.
C12_ClosedOnExitOfTry ==
  /\ LoadExited /\ loaded.pos # "start" => "in_file" \notin open_handles /\ loaded.closed
  /\ file # NoStream => "file" \notin open_handles

\* A load of a stream cut short raised and closed the stream.
C12_Witness ==
  /\ LoadExited /\ loaded.pos = "body" /\ loaded.err = "struct.error"
  /\ in_file.body # ret.body
  /\ loaded.closed /\ open_handles = {}

\* ------------------------------------------------------------------- C17
\* C17: a load of a stream whose leading text matches neither header, the
\* empty stream and a stream without ">" among them, has raised the header
\* error and has no DataModel.
C17_HeaderErrorRaised ==
  in_file # NoStream /\ in_file.hdr.kind \in {"none", "unterminated"}
    /\ loaded.err # "unset" /\ loaded.pos # "start"
    => loaded.err = "Exception" /\ loaded.w = NewLoadWorld

\* ------------------------------------------------------------------- C18
\* The number of lines with the symbol sym.
RECURSIVE CountSym(_, _)
CountSym(lines, sym) ==
  IF lines = <<>> THEN 0
  ELSE (IF lines[1].sym = sym THEN 1 ELSE 0) + CountSym(Tail(lines), sym)

\* The stream read is what echo returned, ended inside an element body of
\* keyvalues2 or before the counts that a binary stream declares are met.
EndsMidStructure ==
  /\ ret # NoStream /\ in_file # NoStream
  /\ in_file.hdr = ret.hdr /\ in_file.kind = ret.kind
  /\ Len(in_file.body) < Len(ret.body)
  /\ in_file.body = SubSeq(ret.body, 1, Len(in_file.body))
  /\ ret.kind = "text" => CountSym(in_file.body, "{") > CountSym(in_file.body, "}")

\* C18: a load of a stream that ends in the middle of a structure has
\* raised an error: it neither returns a DataModel nor runs for ever.
C18_TruncationRaises ==
  EndsMidStructure /\ loaded.err # "unset" /\ loaded.pos # "start"
    => loaded.err \notin {"none", "hang"} /\ loaded.w = NewLoadWorld

\* ------------------------------------------------------------ dictionaries
\* Binary echoes that write a string dictionary, of graphs with placeholders.
MaxDictElems == 2

DictVersions == {2, 3, 4, 5}

DictValues == {VElem(e) : e \in 1..Len(elems)} \cup {VStr("s")}

NextDict ==
  \/ \E ph \in BOOLEAN :
       /\ NoEchoYet
       /\ Len(elems) < MaxDictElems
       /\ AddElement("A", "n", "DmElement", MkId(Len(elems) + 1), ph)
  \/ \E self \in 1..Len(elems), item \in DictValues :
       /\ NoEchoYet
       /\ elems[self].attrs = <<>>
       /\ SetItem(self, "a", item)
  \/ \E ver \in DictVersions : Echo("A", "binary", ver)

SpecDict == Init /\ [][NextDict]_vars

\* ------------------------------------------------------------------- C13
\* The last call was a binary echo of a version that has a dictionary.
DictEchoed ==
  /\ dmRoot["A"] # 0
  /\ writer["A"].encoding = "binary" /\ writer["A"].encoding_ver \in DictVersions

\* The table at the head of the stream that echo returned.
DictTable(stream) == [i \in 1..stream.body[1].n |-> stream.body[i + 1].s]

\* What read_string gives for what write_string wrote for string, with the
\* table of the stream on both sides.
ReadBack(stream, ver, string) ==
  LET d == DictFor("binary", ver, DictTable(stream))
      wrote == WriteString([sd |-> SdSet(d), ver |-> ver, chain |-> <<>>], string)
  IN ReadString(wrote.fields, [err |-> wrote.err, pos |-> 1, f |-> FInt(0), sd |-> d]).f.s

\* C13: a binary echo of version 2 to 5 does not fail the membership
\* assertion of write_string; the table it wrote has no entry twice, and
\* the index written for each of its strings reads back as that string.
C13_DictionaryComplete ==
  DictEchoed =>
    /\ err # "AssertionError"
    /\ JustEchoed("A") =>
         /\ \A i, j \in DOMAIN DictTable(ret) :
              DictTable(ret)[i] = DictTable(ret)[j] => i = j
         /\ \A i \in DOMAIN DictTable(ret) :
              ReadBack(ret, writer["A"].encoding_ver, DictTable(ret)[i]) = DictTable(ret)[i]

\* ------------------------------------------------------------ attributes
\* A key as the caller passes it: a str, or a value of another type (an
\* int), which is no attribute name.
StrKey(s) == [t |-> "str", s |-> s]

IntKey == [t |-> "int", s |-> ""]

\* What a call returned that returns no stream: kind says what the values
\* of body are.
Returns(kind, body) == Stream(kind, NoHeader, body)

\* The calls that change no graph leave the rest as every call does.
CallDone ==
  /\ in_file' = NoStream
  /\ loaded' = NotLoaded
  /\ open_handles' = {}
  /\ UNCHANGED <<kv2_indent, writer, file, threads>>

\* self[key] = item for a key of any type: line 326 raises TypeError for a
\* key that is no str, before anything else is done.
SetItemAny(self, key, item) ==
  \/ key.t = "str" /\ SetItem(self, key.s, item)
  \/ /\ key.t # "str"
     /\ Returned
     /\ self \in 1..Len(elems)
     /\ err' = "TypeError"
     /\ ret' = NoStream
     /\ UNCHANGED <<elems, dmElements, dmRoot>>
     /\ CallDone

\* A lookup that returns None for an absent key, as dict.get does.
GetItemOrNone(el, key) ==
  IF key.t # "str" THEN [err |-> "TypeError", ret |-> NoStream]
  ELSE IF HasAttr(el, key.s)
  THEN [err |-> "none", ret |-> Returns("value", <<GetAttr(el, key.s)>>)]
  ELSE [err |-> "none", ret |-> Returns("value", <<VNull>>)]

\* Element.__getitem__(self, item), lines 318-323: the result is [err, ret].
\* The KeyError of the dict becomes the AttributeError of lines 266-268.
GetItemIn(el, key) ==
  IF key.t # "str" THEN [err |-> "TypeError", ret |-> NoStream]
  ELSE IF HasAttr(el, key.s)
  THEN [err |-> "none", ret |-> Returns("value", <<GetAttr(el, key.s)>>)]
  ELSE [err |-> "AttributeError", ret |-> NoStream]

\* self[key]
GetItemDone(r) ==
  /\ err' = r.err
  /\ ret' = r.ret

GetItem(self, key) ==
  /\ Returned
  /\ self \in 1..Len(elems)
  /\ UNCHANGED <<elems, dmElements, dmRoot>>
  /\ CallDone
  /\ GetItemDone(GetItemIn(elems[self], key))

\* find_elements(name, id, elemtype), lines 554-562, with id a UUID or None
\* (NoId) and "" for a name or a type that is not given (no element has
\* an empty name or type here).  lst is what is left of self.elements.
RECURSIVE FindLoop(_, _, _, _, _, _)
FindLoop(w, lst, name, id, elemtype, out) ==
  IF lst = <<>>
  THEN IF out # <<>> THEN Returns("list", out) ELSE Returns("None", <<>>)
  ELSE LET elem == w.elems[Head(lst)]
           out1 == IF elem.name = name THEN Append(out, Head(lst)) ELSE out
           out2 == IF elem.type = elemtype THEN Append(out1, Head(lst)) ELSE out1
       IN IF elem.id = id THEN Returns("element", <<Head(lst)>>)
          ELSE FindLoop(w, Tail(lst), name, id, elemtype, out2)

FindElementsIn(w, dm, name, id, elemtype) ==
  FindLoop(w, w.list[dm], name, id, elemtype, <<>>)

FindDone(r) ==
  /\ err' = "none"
  /\ ret' = r

\* dm.find_elements(name, id, elemtype)
FindElements(dm, name, id, elemtype) ==
  /\ Returned
  /\ UNCHANGED <<elems, dmElements, dmRoot>>
  /\ CallDone
  /\ FindDone(FindElementsIn(TheWorld, dm, name, id, elemtype))

\* Two DataModels; assignments of values of valid and invalid types (an
\* int, a plain list, the element added last) under keys that are a name,
\* the empty string and no string; lookups.
MaxItemElems == 2

MaxItemAttrs == 1

ItemKeys == {StrKey("a"), StrKey(""), IntKey}

ItemValues == {VInt(7), VList} \cup {VElem(e) : e \in {Len(elems)} \ {0}}

NextItems ==
  \/ \E dm \in DmChoices :
       /\ Len(elems) < MaxItemElems
       /\ AddElement(dm, "n", "DmElement", MkId(Len(elems) + 1), FALSE)
  \/ \E self \in 1..Len(elems), key \in ItemKeys, item \in ItemValues :
       /\ HasAttr(elems[self], key.s) \/ AttrCount(Len(elems)) < MaxItemAttrs
       /\ SetItemAny(self, key, item)
  \/ \E self \in 1..Len(elems), key \in ItemKeys : GetItem(self, key)

SpecItems == Init /\ [][NextItems]_vars

\* Searches in one DataModel with elements of two types.
MaxFindElems == 3

FindElemTypes == {"DmElement", "T"}

FindNames == {"", "n"}

FindIds == {NoId} \cup {MkId(n) : n \in 1..MaxFindElems}

FindTypes == {"", "T", "DmElement"}

NextFind ==
  \/ \E elemtype \in FindElemTypes :
       /\ Len(elems) < MaxFindElems
       /\ AddElement("A", "n", elemtype, MkId(Len(elems) + 1), FALSE)
  \/ \E name \in FindNames, id \in FindIds, elemtype \in FindTypes :
       FindElements("A", name, id, elemtype)

SpecFind == Init /\ [][NextFind]_vars

\* ------------------------------------------------------------------- C14
\* C14: an assignment of a value whose type is no attribute type, or under
\* a key that is no string, raises, and leaves the attributes of every
\* element (keys, order, values) and the element list and root of every
\* DataModel as they were.
C14_InvalidAssignmentRejected ==
  [][\A self \in 1..Len(elems), key \in ItemKeys, item \in ItemValues :
       (/\ item.t \notin DmxTypes \cup {"null"} \/ key.t # "str"
        /\ SetItemAny(self, key, item))
         => /\ err' \in {"ValueError", "TypeError"}
            /\ UNCHANGED <<elems, dmElements, dmRoot>>
    ]_vars

\* An assignment was rejected on a graph with attributes and two lists.
C14_Witness ==
  /\ err \in {"ValueError", "TypeError"}
  /\ \E e \in 1..Len(elems) : elems[e].attrs # <<>>
  /\ \A dm \in DMs : dmElements[dm] # <<>>

\* ------------------------------------------------------------------- C15
\* C15: a lookup of a key that the element does not have raises
\* AttributeError, returns nothing, and leaves the attributes of every
\* element and the list and root of every DataModel as they were.
C15_AbsentKeyRaises ==
  [][\A self \in 1..Len(elems), key \in ItemKeys :
       (/\ key.t = "str" /\ ~HasAttr(elems[self], key.s)
        /\ GetItem(self, key))
         => /\ err' = "AttributeError"
            /\ ret' = NoStream
            /\ UNCHANGED <<elems, dmElements, dmRoot>>
    ]_vars

\* A lookup raised on an element that has another key.
C15_Witness ==
  /\ err = "AttributeError" /\ ret = NoStream
  /\ \E e \in 1..Len(elems) : elems[e].attrs # <<>>

\* ------------------------------------------------------------------- C16
\* The root of a DataModel is unset when its list is empty, and the first
\* entry of the list otherwise.
RootIsFirst ==
  \A dm \in DMs :
    IF dmElements[dm] = <<>> THEN dmRoot[dm] = 0 ELSE dmRoot[dm] = dmElements[dm][1]

\* C16: after every call the root of each DataModel is the first entry of
\* its element list, unset only while the list is empty; it is set by the
\* first add_element, to the element that call made, and no later call
\* changes it.
C16_RootIsFirstAdded ==
  [][/\ RootIsFirst'
     /\ \A dm \in DMs :
          /\ dmRoot[dm] # 0 => dmRoot'[dm] = dmRoot[dm]
          /\ dmRoot[dm] = 0 /\ dmRoot'[dm] # 0 =>
               /\ dmElements[dm] = <<>>
               /\ Len(elems') = Len(elems) + 1
               /\ dmRoot'[dm] = Len(elems')
    ]_vars

\* A DataModel holds its own first element, which is its root, and an
\* imported one.
C16_Witness ==
  \E dm \in DMs :
    /\ Len(dmElements[dm]) >= 2
    /\ dmRoot[dm] = dmElements[dm][1]
    /\ \E e \in Range(dmElements[dm]) : Cardinality(elems[e].dms) = 2

\* ------------------------------------------------------------------- C19
\* The elements of dm that have the name or the type, each once, in the
\* order of the list.
Matching(dm, name, elemtype) ==
  SelectSeq(dmElements[dm],
            LAMBDA e : elems[e].name = name \/ elems[e].type = elemtype)

\* C19: find_elements returns the element that has the id when there is
\* one, whatever the name and the type asked for; otherwise the elements
\* that have the name or the type, each once and in list order.
C19_FindElements ==
  [][\A name \in FindNames, id \in FindIds, elemtype \in FindTypes :
       FindElements("A", name, id, elemtype) =>
         IF \E e \in Range(dmElements["A"]) : elems[e].id = id
         THEN ret'.kind = "element" /\ elems[ret'.body[1]].id = id
         ELSE ret'.body = Matching("A", name, elemtype)
    ]_vars

\* ------------------------------------------------------------------- C20
\* C20: every attribute key of every element is a string that is not
\* empty (an assignment under another key stores nothing).
C20_KeysNotEmpty ==
  \A e \in 1..Len(elems) : \A i \in 1..Len(elems[e].attrs) : elems[e].attrs[i].k # ""

DefinitionsOf(stream, id) ==
  {i \in 1..Len(stream.body) : IsIdLine(stream.body[i]) /\ stream.body[i].toks[3].u = id}

\* C22: the keyvalues2 text that echo returns holds exactly one definition
\* (block with id and name lines) of every non-placeholder element
\* reachable from the root, the root included.
C22_DefinedOnce ==
  (JustEchoed("A") /\ ret.kind = "text") =>
    \A x \in FromRoot("A") :
      ~elems[x].ph => Cardinality(DefinitionsOf(ret, elems[x].id)) = 1

\* ------------------------------------------------------------------- C23
\* The int32 written after the header and the dictionary table.
ElementCount(stream) ==
  IF stream.hdr.enc = "binary" /\ stream.hdr.ver \in DictVersions
  THEN stream.body[Len(DictTable(stream)) + 2].n
  ELSE stream.body[1].n

\* The (type, name, id) entries of the stream: each holds the one uuid.
IndexEntries(stream) == {i \in 1..Len(stream.body) : stream.body[i].w = "uuid"}

\* C23: in the binary stream that echo returns the element count is the
\* number of entries of the element index and the number of attribute
\* blocks (one for each element of the chain), with placeholders in the
\* graph too (here for graphs whose root is not a placeholder).
C23_CountIsIndexLength ==
  (JustEchoed("A") /\ ret.kind = "bytes" /\ ~elems[dmRoot["A"]].ph) =>
    /\ ElementCount(ret) = Cardinality(IndexEntries(ret))
    /\ ElementCount(ret) = Len(writer["A"].chain)

\* ------------------------------------------------------------------- C24
\* The non-placeholder elements found depth-first through targets, in the
\* order of the attributes, each once, after those of chain.
RECURSIVE DepthFirst(_, _, _)
DepthFirst(w, targets, chain) ==
  IF targets = <<>> THEN chain
  ELSE IF Head(targets) \in Range(chain) \/ w.elems[Head(targets)].ph
  THEN DepthFirst(w, Tail(targets), chain)
  ELSE DepthFirst(w, Tail(targets),
                  DepthFirst(w, AttrTargets(w.elems[Head(targets)].attrs),
                             Append(chain, Head(targets))))

\* The position of x in the chain.
ChainPosition(chain, x) == CHOOSE p \in 1..Len(chain) : chain[p] = x

\* The stream that echo returned was read back.
ReadBackBinary ==
  in_file # NoStream /\ in_file = ret /\ ret.kind = "bytes" /\ loaded.err = "none"

\* The slot n of the element at position p of the chain, as read back: it
\* holds as many references as were written, each the element of the list
\* read at the chain position of the target.
SlotsSelectPositions(chain, lst) ==
  \A p \in 1..Len(chain) : \A n \in 1..Len(elems[chain[p]].attrs) :
    LET written == ValTargets(elems[chain[p]].attrs[n].v)
        read == ValTargets(loaded.w.elems[lst[p]].attrs[n].v)
    IN /\ Len(read) = Len(written)
       /\ \A q \in 1..Len(written) : read[q] = lst[ChainPosition(chain, written[q])]

\* C24: the chain of a binary echo is the depth-first order from the root,
\* each reachable non-placeholder element once; on read every reference
\* selects the element of the list at the chain position of its target,
\* and that element has the id of the target, for self-references and
\* references to later elements too.
C24_ReferencesByChainPosition ==
  ReadBackBinary =>
    LET chain == writer["A"].chain
        lst == loaded.w.list[LoadDM]
    IN /\ chain = DepthFirst(TheWorld, <<dmRoot["A"]>>, <<>>)
       /\ Len(lst) = Len(chain)
       /\ SlotsSelectPositions(chain, lst)
       /\ \A p \in 1..Len(chain) : loaded.w.elems[lst[p]].id = elems[chain[p]].id

\* ------------------------------------------------------------------- C25
\* The slots <<e, n, q>> (element, attribute, entry) of the non-placeholder
\* elements reachable from the root of dm that hold a placeholder.
PlaceholderSlots(dm) ==
  UNION {UNION {{<<e, n, q>> : q \in {r \in 1..Len(ValTargets(elems[e].attrs[n].v)) :
                                       elems[ValTargets(elems[e].attrs[n].v)[r]].ph}} :
                n \in 1..Len(elems[e].attrs)} :
         e \in {x \in FromRoot(dm) : ~elems[x].ph}}

\* The fields of the stream that hold the int32 n.
IntFields(stream, n) == {i \in 1..Len(stream.body) : stream.body[i] = FInt(n)}

\* C25: a binary echo of a graph with slots that hold placeholders
\* completes; it writes -1 for each such slot when the version is below 5,
\* and -2 followed by the text of the placeholder's id when it is 5 (here
\* for graphs whose root is not a placeholder).
C25_PlaceholderSentinels ==
  (DictEchoed /\ ~elems[dmRoot["A"]].ph /\ PlaceholderSlots("A") # {}) =>
    /\ err = "none"
    /\ JustEchoed("A")
    /\ LET ver == writer["A"].encoding_ver
           marks == IntFields(ret, IF ver < 5 THEN -1 ELSE -2)
       IN /\ Cardinality(marks) = Cardinality(PlaceholderSlots("A"))
          /\ ver = 5 => \A i \in marks :
               \E x \in 1..Len(elems) : elems[x].ph /\ ret.body[i + 1] = IdText(elems[x].id)

\* ------------------------------------------------------------------- C26
\* The encodings whose _StringDictionary is a dummy (lines 476-481).
DummyPairs == {<<"binary", 1>>, <<"binary_proto", 2>>}

\* The stream starts with the element count (no dictionary table before
\* it), and the type and the name of every index entry are inline strings.
WrittenInline(stream) ==
  /\ stream.kind = "bytes"
  /\ stream.body[1].w = "int"
  /\ stream.body[1].n = Cardinality(IndexEntries(stream))
  /\ \A i \in IndexEntries(stream) :
       i > 2 /\ stream.body[i - 2].w = "str" /\ stream.body[i - 1].w = "str"

\* C26: an echo with binary 1 or binary_proto 2 of a DataModel with a root
\* completes, whatever was called on the DataModel before, and what it
\* returns has no dictionary table and holds its strings inline.
C26_DummyDictionaryEchoCompletes ==
  [][\A pair \in DummyPairs :
       (dmRoot["A"] # 0 /\ Echo("A", pair[1], pair[2])) =>
         err' = "none" /\ WrittenInline(ret')
    ]_vars

\* ------------------------------------------------------------------- C27
\* dm owns self but not the non-placeholder element x, and the elements of
\* dm that have the id of x are placeholders and there is one.
OnlyPlaceholderHasId(dm, self, x) ==
  /\ dm \in elems[self].dms
  /\ ~elems[x].ph
  /\ x \notin Range(dmElements[dm])
  /\ \E y \in Range(dmElements[dm]) : elems[y].id = elems[x].id
  /\ \A y \in Range(dmElements[dm]) : elems[y].id = elems[x].id => elems[y].ph

\* C27: assigning an element of another DataModel to an attribute of an
\* element of dm, when the only elements of dm with its id are
\* placeholders, raises no IDCollisionError and brings the element into the
\* element list of dm.
C27_PlaceholderIsNoCollision ==
  [][\A self \in 1..Len(elems), key \in GraphKeys, x \in 1..Len(elems), dm \in DMs :
       (OnlyPlaceholderHasId(dm, self, x) /\ SetItem(self, key, VElem(x)))
         => err' # "IDCollisionError" /\ x \in Range(dmElements'[dm])
    ]_vars

\* ------------------------------------------------------------------- C28
\* The element list lst of the world w holds a placeholder and, after it, a
\* non-placeholder element with the same id.
PlaceholderKept(w, lst) ==
  \E i, j \in 1..Len(lst) :
    /\ i < j
    /\ w.elems[lst[i]].ph /\ ~w.elems[lst[j]].ph
    /\ w.elems[lst[i]].id = w.elems[lst[j]].id

\* C28: a placeholder does not stay in an element list once a full
\* definition with its id has been added to the list, neither in a
\* DataModel built by add_element nor in one that load returned.
C28_PlaceholderUpgraded ==
  /\ \A dm \in DMs : ~PlaceholderKept(TheWorld, dmElements[dm])
  /\ loaded.err = "none" => ~PlaceholderKept(loaded.w, loaded.w.list[LoadDM])

\* ------------------------------------------------------- reading a sub-tree
\* A graph of named elements is built and echoed as keyvalues2, and the text
\* is loaded with an element_path.
MaxPathElems == 3

PathNames == {"A", "b"}

PathKeys == {"k"}

PathValues ==
  {VElem(e) : e \in 2..Len(elems)} \cup {VEArr(<<e>>) : e \in 2..Len(elems)}
    \cup (IF Len(elems) >= 3 THEN {VEArr(<<2, 3>>)} ELSE {})

PathChoices == {<<"a">>, <<"b">>, <<"a", "b">>}

NextPath ==
  \/ \E name \in PathNames :
       /\ NoEchoYet
       /\ Len(elems) < MaxPathElems
       /\ AddElement("A", name, "DmElement", MkId(Len(elems) + 1), FALSE)
  \/ \E self \in 1..Len(elems), key \in PathKeys, item \in PathValues :
       /\ NoEchoYet
       /\ self < Len(elems)
       /\ SetItem(self, key, item)
  \/ ret = NoStream /\ Echo("A", "keyvalues2", 1)
  \/ \E names \in PathChoices : in_file = NoStream /\ LoadPath(ret, names)

SpecPath == Init /\ [][NextPath]_vars

\* ------------------------------------------------------------------- C29
\* The elements on the path of names that starts at the elements of S, and
\* everything reachable from the elements the whole path leads to.
RECURSIVE OnPath(_, _)
OnPath(S, names) ==
  IF names = <<>> THEN ReachFrom(TheWorld, S)
  ELSE S \cup OnPath({x \in UNION {Range(AttrTargets(elems[y].attrs)) : y \in S} :
                        Lower(elems[x].name) = Lower(Head(names))},
                     Tail(names))

\* The ids of the elements of the list lst of w that are no placeholders.
FullIds(w, lst) == {w.elems[lst[i]].id : i \in {j \in 1..Len(lst) : ~w.elems[lst[j]].ph}}

\* C29: a load of the echoed keyvalues2 text with an element_path returns,
\* and the elements it defines are the root, elements on the named path
\* from the root, and elements below the last element of the path.
C29_OnlyThePathIsRead ==
  [][\A names \in PathChoices :
       (JustEchoed("A") /\ LoadPath(ret, names)) =>
         /\ loaded'.err = "none"
         /\ FullIds(loaded'.w, loaded'.w.list[LoadDM])
              \subseteq {elems[x].id : x \in OnPath({dmRoot["A"]}, names)}
    ]_vars

\* --------------------------------------------------- order of the definitions
\* Graphs of up to four elements in which an element refers to later
\* elements, and the first two elements to the root as well, each element
\* filled after the ones before it, and their keyvalues2 echo.
MaxOrderElems == 4

OrderTargets(self) == (IF self <= 2 THEN {1} ELSE {}) \cup ((self + 1)..Len(elems))

\* No element after self has an attribute yet.
FilledInOrder(self) == \A x \in (self + 1)..Len(elems) : elems[x].attrs = <<>>

NextOrder ==
  \/ /\ NoEchoYet
     /\ Len(elems) < MaxOrderElems
     /\ \A x \in 1..Len(elems) : elems[x].attrs = <<>>
     /\ AddElement("A", "n", "DmElement", MkId(Len(elems) + 1), FALSE)
  \/ \E self \in 1..Len(elems) : \E t \in OrderTargets(self) :
       /\ NoEchoYet
       /\ FilledInOrder(self)
       /\ Len(elems[self].attrs) < Cardinality(EchoKeys)
       /\ SetItem(self, FreshKey(self), VElem(t))
  \/ ret = NoStream /\ Echo("A", "keyvalues2", 1)

SpecOrder == Init /\ [][NextOrder]_vars

\* ------------------------------------------------------------------- C30
\* The ids of the blocks written at top level, in the order of the text: a
\* block starts with a line without indent that holds the type alone, and
\* its id line is the second line after it.
RECURSIVE TopIds(_, _)
TopIds(lines, i) ==
  IF i + 2 > Len(lines) THEN <<>>
  ELSE IF lines[i].ind = 0 /\ Len(lines[i].toks) = 1 /\ IsIdLine(lines[i + 2])
  THEN <<lines[i + 2].toks[3].u>> \o TopIds(lines, i + 1)
  ELSE TopIds(lines, i + 1)

\* The elements reachable from the elements of a queue in the order in which
\* a breadth-first walk comes to them first.
RECURSIVE BreadthFirst(_, _, _)
BreadthFirst(w, queue, seen) ==
  IF queue = <<>> THEN seen
  ELSE IF InList(w, seen, Head(queue)) THEN BreadthFirst(w, Tail(queue), seen)
  ELSE BreadthFirst(w, Tail(queue) \o AttrTargets(w.elems[Head(queue)].attrs),
                    Append(seen, Head(queue)))

\* The ids of the elements of a walk that more than one slot of the
\* elements reachable from the root of dm holds.
RECURSIVE SharedIds(_, _)
SharedIds(dm, walk) ==
  IF walk = <<>> THEN <<>>
  ELSE (IF SlotsIn(TheWorld, FromRoot(dm), Head(walk)) > 1
        THEN <<elems[Head(walk)].id>> ELSE <<>>) \o SharedIds(dm, Tail(walk))

\* The ids of the top-level blocks that should follow the block of the root
\* when the elements are taken in the order of walk.
FlatAfterRoot(dm, walk) == <<elems[dmRoot[dm]].id>> \o SharedIds(dm, walk)

\* C30 as stated: the text starts with the block of the root, and the
\* blocks after it are those of the elements with more than one user, in
\* breadth-first order of discovery from the root.
C30_FlatBreadthFirst ==
  (JustEchoed("A") /\ ret.kind = "text") =>
    TopIds(ret.body, 1) = FlatAfterRoot("A", BreadthFirst(TheWorld, <<dmRoot["A"]>>, <<>>))

\* C30 amended: the blocks after the block of the root are those of the
\* elements with more than one user in the order in which the depth-first
\* walk of _count_child_elems enters them first (the root itself among
\* them, first, when it has more than one user).
C30_FlatDepthFirst ==
  (JustEchoed("A") /\ ret.kind = "text") =>
    TopIds(ret.body, 1) = FlatAfterRoot("A", DepthFirst(TheWorld, <<dmRoot["A"]>>, <<>>))

\* An echo returned a text with two flat definitions whose order the two
\* walks give differently.
C30_Witness ==
  /\ JustEchoed("A") /\ ret.kind = "text"
  /\ Len(TopIds(ret.body, 1)) >= 3
  /\ SharedIds("A", BreadthFirst(TheWorld, <<dmRoot["A"]>>, <<>>))
       # SharedIds("A", DepthFirst(TheWorld, <<dmRoot["A"]>>, <<>>))
====
